---------------------------- MODULE Spec2Model ----------------------------
(***************************************************************************)
(* A model of the @ldesign/error core: the capture engine (ErrorCatcher,   *)
(* with its FingerprintCache and RateLimiter) and the delivery engine      *)
(* (ErrorReporter).  Time is a bounded integer clock; strings that the     *)
(* code inspects are sequences of one-character strings.                   *)
(***************************************************************************)
EXTENDS Integers, Sequences, FiniteSets, TLC

(***************************************************************************)
(* Bounds of the model.  The configuration options of the engines are      *)
(* scaled down: the code's defaults are named in the comments.             *)
(***************************************************************************)
\* last value of the clock
MaxTime == 2
\* options.deduplicationWindow, the cache's ttl (default 5 * 60 * 1000)
DedupWindow == 1
\* the FingerprintCache's maxSize (ErrorCatcher passes 100)
CacheMaxSize == 2
\* options.maxErrorsPerMinute, the RateLimiter's maxCalls (default 100)
MaxCalls == 1
\* the RateLimiter's windowMs (ErrorCatcher passes 60 * 1000)
RateWindow == 1

\* options.maxBreadcrumbs (default 50): the largest cap an engine is built with
MaxBreadcrumbs == 2
\* the number of addBreadcrumb calls between two clearBreadcrumbs calls
MaxCrumbsAdded == 4

\* the number of records report() is called with
MaxRecords == 3
\* options.batchSize (default 10)
BatchSize == 2
\* options.maxRetries (default 3)
MaxRetries == 1
\* options.maxOfflineCacheSize (default 100)
MaxOfflineCacheSize == 2
\* Math.random() returns draw / SampleScale, options.sampleRate is rate / SampleScale
SampleScale == 2
\* the flush() calls that may wait on the initialization at once
MaxWaiting == 2
\* the IndexedDB transactions that may be pending at once
MaxTransactions == 2
\* options.batchInterval, in clock ticks
BatchInterval == 1

\* no time yet
NoTime == 0 - 1

VARIABLES
    now,                          \* Date.now()
    catcherOptions,               \* ErrorCatcher.options
    fingerprintCache,             \* FingerprintCache.cache, in Map insertion order
    rateLimiterCalls,             \* RateLimiter.calls
    isInstalled,                  \* ErrorCatcher.isInstalled
    originalOnError,              \* ErrorCatcher.originalOnError
    originalOnUnhandledRejection, \* ErrorCatcher.originalOnUnhandledRejection
    boundResourceErrorHandler,    \* ErrorCatcher.boundResourceErrorHandler
    windowOnerror,                \* window.onerror
    windowOnunhandledrejection,   \* window.onunhandledrejection
    resourceListeners,            \* capturing 'error' listeners of this engine on window
    priorHooks,                   \* history: the hooks as they were before the last install()
    lastEmit,                     \* history: the time of the last onError call for `watched`
    lastSeen,                     \* history: the time its last capture passed the dedup stage
    evicted,                      \* history: how the cache lost it since lastEmit, if it did
    admitted,                     \* history: the times of the captures the rate limiter let
                                  \* through that are younger than its window
    last                          \* history: the last operation and its outcome

catcherState == <<catcherOptions, fingerprintCache, rateLimiterCalls, isInstalled,
                  originalOnError, originalOnUnhandledRejection,
                  boundResourceErrorHandler, windowOnerror,
                  windowOnunhandledrejection, resourceListeners, priorHooks,
                  lastEmit, lastSeen, evicted, last>>

VARIABLES
    isBrowser,                    \* env.ts isBrowser(): there is a window
    navigatorSendBeacon,          \* env.ts: navigator.sendBeacon is a function
    breadcrumbs,                  \* ErrorCatcher.breadcrumbs
    crumbsAdded,                  \* history: the addBreadcrumb() calls made
    counter,                      \* id.ts counter
    issued,                       \* history: the ids the generators returned
    call                          \* history: the last call of a utility and its result

auxVars == <<isBrowser, navigatorSendBeacon, breadcrumbs, crumbsAdded, counter, issued, call>>

catcherVars == <<catcherState, admitted, auxVars>>

VARIABLES
    reporterOptions,              \* ErrorReporter.options (sampleRate, useBeacon; the rest
                                  \* are the bounds)
    queue,                        \* ErrorReporter.queue, the ids of the records
    isProcessing,                 \* ErrorReporter.isProcessing
    batchTimer,                   \* ErrorReporter.batchTimer is set
    db,                           \* ErrorReporter.db is an open connection
    initialized,                  \* ErrorReporter.initialized
    initPromise,                  \* ErrorReporter.initPromise: "promise" or "null"
    boundUnloadHandler,           \* ErrorReporter.boundUnloadHandler is attached
    opening,                      \* indexedDB.open() has not called back yet
    flushWaiting,                 \* flush() calls suspended at `await this.initPromise`
    inflight,                     \* the batch sendWithRetry() is sending, or <<>>
    attempt,                      \* sendWithRetry's attempt
    store,                        \* the ids in the IndexedDB object store
    txq,                          \* the IndexedDB transactions created and not yet run
    nextId,                       \* the id of the next record reported
    sendCalls,                    \* history: the send() calls made for the batch in flight
    recovered,                    \* history: the ids loadCachedErrors() put in the queue
    failedStored,                 \* history: the ids the save of a failed flush stored
    handed,                       \* history: the ids this engine's flushes gave to send()
    rlast,                        \* history: the last step of the reporter
    timeouts                      \* the due times of the pending timeouts of startBatchTimer()

reporterVars == <<reporterOptions, queue, isProcessing, batchTimer, db, initialized,
                  initPromise, boundUnloadHandler, opening, flushWaiting, inflight,
                  attempt, store, txq, nextId, sendCalls, recovered, failedStored,
                  handed, rlast, timeouts>>

(***************************************************************************)
(* Strings                                                                 *)
(***************************************************************************)
ScriptErrorChars == <<"S","c","r","i","p","t"," ","e","r","r","o","r">>
ResizeObserverChars == <<"R","e","s","i","z","e","O","b","s","e","r","v","e","r"," ","l","o","o","p">>
ChromeExtensionChars == <<"c","h","r","o","m","e","-","e","x","t","e","n","s","i","o","n",":","/","/">>
MozExtensionChars == <<"m","o","z","-","e","x","t","e","n","s","i","o","n",":","/","/">>
SafariExtensionChars == <<"s","a","f","a","r","i","-","e","x","t","e","n","s","i","o","n",":","/","/">>

\* the messages of the model, and those its captureError and captureMessage calls carry
Messages == {"Script error.", "ResizeObserver loop", "boom", "", "Unknown error", "{}",
             "undefined"}
ErrorMessages == {"Script error.", "boom"}
TextMessages == {"Script error.", "ResizeObserver loop"}

MessageChars(m) ==
    CASE m = "Script error." -> ScriptErrorChars \o <<".">>
      [] m = "ResizeObserver loop" -> ResizeObserverChars
      [] m = "boom" -> <<"b","o","o","m">>
      [] m = "" -> <<>>
      [] m = "Unknown error" -> <<"U","n","k","n","o","w","n"," ","e","r","r","o","r">>
      [] m = "{}" -> <<"{","}">>
      [] m = "undefined" -> <<"u","n","d","e","f","i","n","e","d">>

NameChars(n) ==
    CASE n = "Error" -> <<"E","r","r","o","r">>
      [] n = "Message" -> <<"M","e","s","s","a","g","e">>
      [] n = "TypeError" -> <<"T","y","p","e","E","r","r","o","r">>

\* error.stack of a native Error: "<name>: <message>\n    at f (a.js:1:2)";
\* a captureMessage record has no stack
StackChars(stack, name, m) ==
    IF stack = "none" THEN <<>>
    ELSE NameChars(name) \o <<":"," ">> \o MessageChars(m)
         \o <<"\n"," "," "," "," ","a","t"," ","f"," ","(","a",".","j","s",":","1",":","2",")">>

StartsWith(text, prefix) ==
    /\ Len(text) >= Len(prefix)
    /\ SubSeq(text, 1, Len(prefix)) = prefix

Includes(text, part) ==
    \E i \in 1..(Len(text) - Len(part) + 1) :
        SubSeq(text, i, i + Len(part) - 1) = part

(***************************************************************************)
(* constants.ts                                                            *)
(***************************************************************************)
DEFAULT_IGNORE_PATTERNS ==
    <<"chrome-extension", "moz-extension", "safari-extension",
      "script-error", "resize-observer">>

\* pattern.test(text) for the regular expressions of DEFAULT_IGNORE_PATTERNS
PatternTest(pattern, text) ==
    CASE pattern = "chrome-extension" -> StartsWith(text, ChromeExtensionChars)
      [] pattern = "moz-extension" -> StartsWith(text, MozExtensionChars)
      [] pattern = "safari-extension" -> StartsWith(text, SafariExtensionChars)
      \* /^Script error\.?$/
      [] pattern = "script-error" ->
            text = ScriptErrorChars \/ text = ScriptErrorChars \o <<".">>
      \* /ResizeObserver loop/
      [] pattern = "resize-observer" -> Includes(text, ResizeObserverChars)

(***************************************************************************)
(* utils/fingerprint.ts                                                    *)
(***************************************************************************)
\* extractKeyFrames: the frames of the stack with :line:column removed
extractKeyFrames(stack) ==
    IF stack = "none" THEN "" ELSE "at f (a.js)"

\* generateFingerprint: the hash of the joined parts, taken as injective
generateFingerprint(error) ==
    <<error.name, error.message, error.source, extractKeyFrames(error.stack)>>

\* FingerprintCache.has with an entry expiring as soon as its age reaches the ttl
CacheHasExpiringAtTtl(cache, fp, t) ==
    \E i \in 1..Len(cache) :
        cache[i].fp = fp /\ ~(t - cache[i].ts >= DedupWindow)

\* FingerprintCache.has answering from an entry of any age
CacheHasOfAnyAge(cache, fp, t) ==
    \E i \in 1..Len(cache) : cache[i].fp = fp

\* FingerprintCache.has: whether the fingerprint is cached and not expired
CacheHas(cache, fp, t) ==
    \E i \in 1..Len(cache) :
        cache[i].fp = fp /\ ~(t - cache[i].ts > DedupWindow)

\* FingerprintCache.has: the cache afterwards, an expired entry deleted
CacheAfterHas(cache, fp, t) ==
    SelectSeq(cache, LAMBDA e : ~(e.fp = fp /\ t - e.ts > DedupWindow))

\* the position of entry i in entries sorted by timestamp (a stable sort)
SortedRank(cache, i) ==
    Cardinality({j \in 1..Len(cache) :
        \/ cache[j].ts < cache[i].ts
        \/ (cache[j].ts = cache[i].ts /\ j < i)})

\* Math.ceil(maxSize / 2)
HalfMaxSize == (CacheMaxSize + 1) \div 2

RECURSIVE KeepIndexes(_, _, _)
KeepIndexes(cache, keep, i) ==
    IF i > Len(cache) THEN <<>>
    ELSE (IF i \in keep THEN <<cache[i]>> ELSE <<>>) \o KeepIndexes(cache, keep, i + 1)

\* FingerprintCache.cleanup evicting the newest half instead of the oldest
CacheCleanupNewestHalf(cache, t) ==
    LET live == SelectSeq(cache, LAMBDA e : ~(t - e.ts > DedupWindow))
    IN  IF Len(live) >= CacheMaxSize
        THEN KeepIndexes(live,
                 {i \in 1..Len(live) : SortedRank(live, i) < Len(live) - HalfMaxSize}, 1)
        ELSE live

\* FingerprintCache.cleanup
CacheCleanup(cache, t) ==
    LET live == SelectSeq(cache, LAMBDA e : ~(t - e.ts > DedupWindow))
    IN  IF Len(live) >= CacheMaxSize
        THEN KeepIndexes(live,
                 {i \in 1..Len(live) : SortedRank(live, i) >= HalfMaxSize}, 1)
        ELSE live

\* Map.set: a present key keeps its place, a new key goes last
CacheSet(cache, fp, t) ==
    IF \E i \in 1..Len(cache) : cache[i].fp = fp
    THEN [i \in 1..Len(cache) |->
             IF cache[i].fp = fp THEN [fp |-> fp, ts |-> t] ELSE cache[i]]
    ELSE Append(cache, [fp |-> fp, ts |-> t])

\* FingerprintCache.add
CacheAdd(cache, fp, t) ==
    CacheSet(IF Len(cache) >= CacheMaxSize THEN CacheCleanup(cache, t) ELSE cache,
             fp, t)

\* FingerprintCache.checkAndAdd storing the time of every sighting
checkAndAddRefreshing(cache, fp, t) ==
    IF CacheHas(cache, fp, t)
    THEN [dup |-> TRUE, cache |-> CacheSet(cache, fp, t)]
    ELSE [dup |-> FALSE, cache |-> CacheAdd(CacheAfterHas(cache, fp, t), fp, t)]

\* FingerprintCache.checkAndAdd: [dup |-> the result, cache |-> the cache afterwards]
checkAndAdd(cache, fp, t) ==
    IF CacheHas(cache, fp, t)
    THEN [dup |-> TRUE, cache |-> cache]
    ELSE [dup |-> FALSE, cache |-> CacheAdd(CacheAfterHas(cache, fp, t), fp, t)]

CacheKeys(cache) == {cache[i].fp : i \in 1..Len(cache)}

(***************************************************************************)
(* utils/throttle.ts                                                       *)
(***************************************************************************)
\* RateLimiter.tryAcquire counting the recorded calls whatever their age
tryAcquireNeverExpiring(calls, t) ==
    IF Len(calls) < MaxCalls
    THEN [ok |-> TRUE, calls |-> Append(calls, t)]
    ELSE [ok |-> FALSE, calls |-> calls]

\* RateLimiter.tryAcquire admitting a call when maxCalls calls are in the window
tryAcquireAtLimit(calls, t) ==
    LET pruned == SelectSeq(calls, LAMBDA time : t - time < RateWindow)
    IN  IF Len(pruned) <= MaxCalls
        THEN [ok |-> TRUE, calls |-> Append(pruned, t)]
        ELSE [ok |-> FALSE, calls |-> pruned]

\* RateLimiter.tryAcquire: [ok |-> the result, calls |-> the calls afterwards]
tryAcquire(calls, t) ==
    LET pruned == SelectSeq(calls, LAMBDA time : t - time < RateWindow)
    IN  IF Len(pruned) < MaxCalls
        THEN [ok |-> TRUE, calls |-> Append(pruned, t)]
        ELSE [ok |-> FALSE, calls |-> pruned]

(***************************************************************************)
(* catcher: ErrorCatcher                                                   *)
(***************************************************************************)
\* ErrorCatcher.shouldIgnore
shouldIgnore(options, errorInfo) ==
    LET textToCheck == MessageChars(errorInfo.message) \o <<" ">>
                       \o StackChars(errorInfo.stack, errorInfo.name, errorInfo.message)
    IN  \E k \in 1..Len(options.ignorePatterns) :
            PatternTest(options.ignorePatterns[k], textToCheck)

\* shouldIgnore over the records of the model, evaluated once
IgnoreTable ==
    [pats \in {DEFAULT_IGNORE_PATTERNS, <<>>} |->
        [key \in {<<n, m, st>> : n \in {"Error", "Message", "TypeError"}, m \in Messages,
                                 st \in {"none", "native"}} |->
            shouldIgnore([ignorePatterns |-> pats],
                         [name |-> key[1], message |-> key[2], stack |-> key[3]])]]

\* ErrorCatcher.createErrorInfo, for a native Error carrying the message
createErrorInfo(message, source) ==
    LET info == [name |-> "Error", message |-> message, source |-> source,
                 stack |-> "native"]
    IN  info @@ [fingerprint |-> generateFingerprint(info)]

\* the record captureMessage builds
createMessageInfo(message) ==
    LET info == [name |-> "Message", message |-> message, source |-> "manual",
                 stack |-> "none"]
    IN  info @@ [fingerprint |-> generateFingerprint(info)]

\* what the callbacks given to the engine may do when called
BeforeCaptureResults == {"pass", "veto", "throw"}
OnErrorResults == {"ok", "throw"}

\* processError with the rate limiter asked before the fingerprint cache
processErrorLimiterFirst(options, st, errorInfo, t, beforeCapture, onError) ==
    IF IgnoreTable[options.ignorePatterns][<<errorInfo.name, errorInfo.message,
                                             errorInfo.stack>>]
    THEN st @@ [outcome |-> "ignored", threw |-> FALSE]
    ELSE
      LET rl == IF options.enableRateLimit
                THEN tryAcquire(st.calls, t)
                ELSE [ok |-> TRUE, calls |-> st.calls]
      IN  IF ~rl.ok
          THEN [cache |-> st.cache, calls |-> rl.calls,
                outcome |-> "ratelimited", threw |-> FALSE]
          ELSE
            LET dd == IF options.enableDeduplication
                      THEN checkAndAdd(st.cache, errorInfo.fingerprint, t)
                      ELSE [dup |-> FALSE, cache |-> st.cache]
                s2 == [cache |-> dd.cache, calls |-> rl.calls]
            IN  IF dd.dup
                THEN s2 @@ [outcome |-> "duplicate", threw |-> FALSE]
                ELSE IF beforeCapture = "throw"
                THEN s2 @@ [outcome |-> "beforeCaptureThrew", threw |-> TRUE]
                ELSE IF beforeCapture = "veto"
                THEN s2 @@ [outcome |-> "vetoed", threw |-> FALSE]
                ELSE s2 @@ [outcome |-> "emitted", threw |-> (onError = "throw")]

\* ErrorCatcher.processError on the engine state st = [cache, calls]:
\* the state afterwards and how the record left the pipeline
processError(options, st, errorInfo, t, beforeCapture, onError) ==
    IF IgnoreTable[options.ignorePatterns][<<errorInfo.name, errorInfo.message,
                                             errorInfo.stack>>]
    THEN st @@ [outcome |-> "ignored", threw |-> FALSE]
    ELSE
      LET dd == IF options.enableDeduplication
                THEN checkAndAdd(st.cache, errorInfo.fingerprint, t)
                ELSE [dup |-> FALSE, cache |-> st.cache]
      IN  IF dd.dup
          THEN [cache |-> dd.cache, calls |-> st.calls,
                outcome |-> "duplicate", threw |-> FALSE]
          ELSE
            LET rl == IF options.enableRateLimit
                      THEN tryAcquire(st.calls, t)
                      ELSE [ok |-> TRUE, calls |-> st.calls]
                s2 == [cache |-> dd.cache, calls |-> rl.calls]
            IN  IF ~rl.ok
                THEN s2 @@ [outcome |-> "ratelimited", threw |-> FALSE]
                ELSE IF beforeCapture = "throw"
                THEN s2 @@ [outcome |-> "beforeCaptureThrew", threw |-> TRUE]
                ELSE IF beforeCapture = "veto"
                THEN s2 @@ [outcome |-> "vetoed", threw |-> FALSE]
                ELSE s2 @@ [outcome |-> "emitted", threw |-> (onError = "throw")]

NoLast ==
    [op |-> "none", fp |-> <<>>, outcome |-> "none", threw |-> FALSE,
     chained |-> "none", runs |-> 0]

\* the fingerprint whose history is kept
watched == createErrorInfo("boom", "manual").fingerprint

\* the history of one pipeline run r = processError(...) of errorInfo
EmitAfter(r, errorInfo) ==
    IF r.outcome = "emitted" /\ errorInfo.fingerprint = watched
    THEN now
    ELSE lastEmit

SeenAfter(r, errorInfo) ==
    IF errorInfo.fingerprint = watched /\ r.outcome \notin {"ignored", "duplicate"}
    THEN now
    ELSE lastSeen

EvictedAfter(r, errorInfo) ==
    IF r.outcome = "emitted" /\ errorInfo.fingerprint = watched
    THEN "no"
    ELSE IF watched \in CacheKeys(fingerprintCache) \ CacheKeys(r.cache)
    THEN "evicted"
    ELSE evicted

\* the captures the rate limiter let through, whatever beforeCapture did next
AdmittedAfter(r) ==
    IF catcherOptions.enableRateLimit
       /\ r.outcome \in {"emitted", "vetoed", "beforeCaptureThrew"}
    THEN Append(admitted, now)
    ELSE admitted

LastAfter(op, r, errorInfo) ==
    [NoLast EXCEPT !.op = op, !.fp = errorInfo.fingerprint,
                   !.outcome = r.outcome, !.threw = r.threw, !.runs = 1]

hookVars == <<isInstalled, originalOnError, originalOnUnhandledRejection,
              boundResourceErrorHandler, windowOnerror, windowOnunhandledrejection,
              resourceListeners, priorHooks>>

\* one run of the pipeline on a record a public capture method built
RunPipeline(op, errorInfo, beforeCapture, onError) ==
    LET r == processError(catcherOptions,
                 [cache |-> fingerprintCache, calls |-> rateLimiterCalls],
                 errorInfo, now, beforeCapture, onError)
    IN  /\ fingerprintCache' = r.cache
        /\ rateLimiterCalls' = r.calls
        /\ lastEmit' = EmitAfter(r, errorInfo)
        /\ lastSeen' = SeenAfter(r, errorInfo)
        /\ evicted' = EvictedAfter(r, errorInfo)
        /\ last' = LastAfter(op, r, errorInfo)
        /\ admitted' = AdmittedAfter(r)
        /\ UNCHANGED <<now, catcherOptions, hookVars, isBrowser, navigatorSendBeacon, breadcrumbs, crumbsAdded,
                       reporterVars>>

\* a capture whose record is followed by its fingerprint only
Capture(op, errorInfo, beforeCapture, onError) ==
    /\ RunPipeline(op, errorInfo, beforeCapture, onError)
    /\ UNCHANGED <<counter, issued, call>>

\* ErrorCatcher.captureError
captureError ==
    \E m \in ErrorMessages, bc \in BeforeCaptureResults :
        \E oe \in (IF bc = "pass" THEN OnErrorResults ELSE {"ok"}) :
            Capture("captureError", createErrorInfo(m, "manual"), bc, oe)

\* ErrorCatcher.captureMessage
captureMessage ==
    \E m \in TextMessages, bc \in BeforeCaptureResults :
        \E oe \in (IF bc = "pass" THEN OnErrorResults ELSE {"ok"}) :
            Capture("captureMessage", createMessageInfo(m), bc, oe)

\* ErrorCatcher.clearFingerprintCache
clearFingerprintCache ==
    /\ fingerprintCache' = <<>>
    /\ evicted' = IF watched \in CacheKeys(fingerprintCache) THEN "cleared" ELSE evicted
    /\ last' = [NoLast EXCEPT !.op = "clearFingerprintCache"]
    /\ UNCHANGED <<now, catcherOptions, rateLimiterCalls, lastEmit, lastSeen, hookVars,
                   admitted, auxVars, reporterVars>>

\* ErrorCatcher.resetRateLimiter
resetRateLimiter ==
    /\ rateLimiterCalls' = <<>>
    /\ last' = [NoLast EXCEPT !.op = "resetRateLimiter"]
    /\ admitted' = <<>>
    /\ UNCHANGED <<now, catcherOptions, fingerprintCache, lastEmit, lastSeen, evicted,
                   hookVars, auxVars, reporterVars>>

\* RateLimiter.tryAcquire, called on the limiter itself
acquire ==
    LET rl == tryAcquire(rateLimiterCalls, now)
    IN  /\ rateLimiterCalls' = rl.calls
        /\ admitted' = IF rl.ok THEN Append(admitted, now) ELSE admitted
        /\ last' = [NoLast EXCEPT !.op = "tryAcquire",
                        !.outcome = IF rl.ok THEN "acquired" ELSE "refused"]
        /\ UNCHANGED <<now, catcherOptions, fingerprintCache, lastEmit, lastSeen, evicted,
                       hookVars, auxVars, reporterVars>>

\* the clock advances
Tick ==
    /\ now < MaxTime
    /\ now' = now + 1
    /\ admitted' = SelectSeq(admitted, LAMBDA t : now' - t < RateWindow)
    /\ UNCHANGED <<catcherState, auxVars, reporterVars>>

vars == <<now, catcherVars, reporterVars>>

DefaultCatcherOptions ==
    [enabled |-> TRUE, enableDeduplication |-> TRUE, enableRateLimit |-> TRUE,
     ignorePatterns |-> DEFAULT_IGNORE_PATTERNS, maxBreadcrumbs |-> MaxBreadcrumbs]

NoHooks == [onerror |-> "none", onunhandledrejection |-> "none"]

NoCall == [fn |-> "none", args |-> <<>>, result |-> <<>>]

\* a new ErrorCatcher, and the utilities before their first call
InitEngine ==
    /\ now = 0
    /\ breadcrumbs = <<>>
    /\ crumbsAdded = 0
    /\ counter = 0
    /\ issued = <<>>
    /\ call = NoCall
    /\ fingerprintCache = <<>>
    /\ rateLimiterCalls = <<>>
    /\ isInstalled = FALSE
    /\ originalOnError = "none"
    /\ originalOnUnhandledRejection = "none"
    /\ boundResourceErrorHandler = FALSE
    /\ resourceListeners = 0
    /\ priorHooks = NoHooks
    /\ lastEmit = NoTime
    /\ lastSeen = NoTime
    /\ evicted = "no"
    /\ admitted = <<>>
    /\ last = NoLast

\* a new ErrorCatcher in a page
InitCatcher ==
    /\ InitEngine
    /\ isBrowser = TRUE
    /\ navigatorSendBeacon = TRUE

\* the value of the history `handed` in a specification that does not keep it
Untracked == {0}

NoRLast ==
    [op |-> "none", out |-> "none", batch |-> <<>>, by |-> "none", sends |-> 0,
     fails |-> 0, onSuccess |-> 0, onError |-> 0, threw |-> FALSE, at |-> now,
     used |-> <<>>]

\* ErrorReporter's constructor, up to the indexedDB.open() request of initDB()
InitReporter ==
    /\ queue = <<>>
    /\ isProcessing = FALSE
    /\ batchTimer = FALSE
    /\ db = FALSE
    /\ initialized = FALSE
    /\ initPromise = "promise"
    /\ boundUnloadHandler = FALSE
    /\ opening = TRUE
    /\ flushWaiting = <<>>
    /\ inflight = <<>>
    /\ attempt = 0
    /\ store = {}
    /\ txq = <<>>
    /\ nextId = 1
    /\ sendCalls = 0
    /\ recovered = {}
    /\ failedStored = {}
    /\ rlast = NoRLast
    /\ timeouts = <<>>

\* DEFAULT_REPORTER_OPTIONS.sampleRate is 1
DefaultReporterOptions == [sampleRate |-> SampleScale, useBeacon |-> TRUE]

\* the capture pipeline under every configuration of its stages
InitPipeline ==
    /\ InitCatcher
    /\ catcherOptions \in
           {DefaultCatcherOptions,
            [DefaultCatcherOptions EXCEPT !.ignorePatterns = <<>>],
            [DefaultCatcherOptions EXCEPT !.enableRateLimit = FALSE],
            [DefaultCatcherOptions EXCEPT !.enableDeduplication = FALSE]}
    /\ windowOnerror = "none"
    /\ windowOnunhandledrejection = "none"
    /\ InitReporter
    /\ reporterOptions = DefaultReporterOptions
    /\ handed = Untracked

NextPipeline ==
    \/ Tick
    \/ captureError
    \/ captureMessage
    \/ clearFingerprintCache
    \/ resetRateLimiter

SpecPipeline == InitPipeline /\ [][NextPipeline]_vars

\* the captures and the clock, with the cache cleared by hand
NextDedup ==
    \/ Tick
    \/ captureError
    \/ captureMessage
    \/ clearFingerprintCache

SpecDedup == InitPipeline /\ [][NextDedup]_vars

\* the rate limiter called at non-decreasing times, by the pipeline and directly,
\* and never reset
NextLimiter ==
    \/ Tick
    \/ acquire
    \/ captureError
    \/ captureMessage
    \/ clearFingerprintCache

SpecLimiter == InitPipeline /\ [][NextLimiter]_vars

(***************************************************************************)
(* catcher: the global hooks                                               *)
(***************************************************************************)
\* install() returning early only when disabled or outside a browser
installIsNoopUnlessInstalled == ~catcherOptions.enabled \/ ~isBrowser

\* the early returns of install():
\* `if (this.isInstalled || !this.options.enabled)` and `if (!isBrowser())`
installIsNoop == isInstalled \/ ~catcherOptions.enabled \/ ~isBrowser

\* ErrorCatcher.install (every capture option set)
install ==
    /\ IF installIsNoop
       THEN /\ last' = [NoLast EXCEPT !.op = "install", !.outcome = "noop"]
            /\ UNCHANGED hookVars
       ELSE /\ originalOnError' = windowOnerror
            /\ windowOnerror' = "wrapper"
            /\ originalOnUnhandledRejection' = windowOnunhandledrejection
            /\ windowOnunhandledrejection' = "wrapper"
            /\ boundResourceErrorHandler' = TRUE
            /\ resourceListeners' = resourceListeners + 1
            /\ isInstalled' = TRUE
            /\ priorHooks' = [onerror |-> windowOnerror,
                              onunhandledrejection |-> windowOnunhandledrejection]
            /\ last' = [NoLast EXCEPT !.op = "install", !.outcome = "done"]
    /\ UNCHANGED <<now, catcherOptions, fingerprintCache, rateLimiterCalls,
                   lastEmit, lastSeen, evicted, admitted, auxVars, reporterVars>>

\* ErrorCatcher.uninstall
uninstall ==
    /\ IF ~isInstalled \/ ~isBrowser
       THEN /\ last' = [NoLast EXCEPT !.op = "uninstall", !.outcome = "noop"]
            /\ UNCHANGED hookVars
       ELSE /\ windowOnerror' =
                  IF originalOnError # "none" THEN originalOnError ELSE windowOnerror
            /\ originalOnError' = "none"
            /\ windowOnunhandledrejection' =
                  IF originalOnUnhandledRejection # "none"
                  THEN originalOnUnhandledRejection
                  ELSE windowOnunhandledrejection
            /\ originalOnUnhandledRejection' = "none"
            /\ resourceListeners' =
                  IF boundResourceErrorHandler THEN resourceListeners - 1
                  ELSE resourceListeners
            /\ boundResourceErrorHandler' = FALSE
            /\ isInstalled' = FALSE
            /\ last' = [NoLast EXCEPT !.op = "uninstall", !.outcome = "done"]
            /\ UNCHANGED priorHooks
    /\ UNCHANGED <<now, catcherOptions, fingerprintCache, rateLimiterCalls,
                   lastEmit, lastSeen, evicted, admitted, auxVars, reporterVars>>

\* the wrapper install() puts on a hook, called by the platform: its own
\* pipeline first, then the handler saved in `original`, read when it is called.
\* A saved handler that is this engine's own wrapper calls itself until the
\* call stack overflows; `depth` bounds the pipeline runs of that recursion.
RECURSIVE wrapperCall(_, _, _, _, _, _)
wrapperCall(original, st, errorInfo, beforeCapture, onError, depth) ==
    LET r == processError(catcherOptions, st, errorInfo, now, beforeCapture, onError)
        s2 == [cache |-> r.cache, calls |-> r.calls]
    IN  IF r.threw
        THEN [st |-> s2, first |-> r, threw |-> TRUE, chained |-> "none", runs |-> 1]
        ELSE IF original = "none"
        THEN [st |-> s2, first |-> r, threw |-> FALSE, chained |-> "none", runs |-> 1]
        ELSE IF original = "host"
        THEN [st |-> s2, first |-> r, threw |-> FALSE, chained |-> "host", runs |-> 1]
        ELSE IF depth = 0
        THEN [st |-> s2, first |-> r, threw |-> TRUE, chained |-> "overflow", runs |-> 1]
        ELSE LET inner == wrapperCall(original, s2, errorInfo, beforeCapture,
                                      onError, depth - 1)
             IN  [inner EXCEPT !.first = r, !.runs = inner.runs + 1]

\* the pipeline runs the model follows into a wrapper that calls itself
RecursionDepth == MaxCalls + 1

\* the platform reports a fault on a hook whose current handler is `hook`
Dispatch(op, hook, original, errorInfo, beforeCapture, onError) ==
    /\ isBrowser
    /\ IF hook = "wrapper"
       THEN LET w == wrapperCall(original,
                        [cache |-> fingerprintCache, calls |-> rateLimiterCalls],
                        errorInfo, beforeCapture, onError, RecursionDepth)
            IN  /\ fingerprintCache' = w.st.cache
                /\ rateLimiterCalls' = w.st.calls
                /\ last' = [NoLast EXCEPT !.op = op, !.fp = errorInfo.fingerprint,
                                          !.outcome = w.first.outcome,
                                          !.threw = w.threw, !.chained = w.chained,
                                          !.runs = w.runs]
       ELSE /\ last' = [NoLast EXCEPT !.op = op, !.fp = errorInfo.fingerprint,
                                      !.chained = hook]
            /\ UNCHANGED <<fingerprintCache, rateLimiterCalls>>
    /\ evicted' = IF watched \in CacheKeys(fingerprintCache) \ CacheKeys(fingerprintCache')
                  THEN "evicted" ELSE evicted
    /\ UNCHANGED <<now, catcherOptions, lastEmit, lastSeen, hookVars, admitted,
                   auxVars, reporterVars>>

\* an uncaught exception: the platform calls window.onerror
globalError ==
    \E m \in ErrorMessages, bc \in BeforeCaptureResults :
        \E oe \in (IF bc = "pass" THEN OnErrorResults ELSE {"ok"}) :
            Dispatch("globalError", windowOnerror, originalOnError,
                     createErrorInfo(m, "runtime"), bc, oe)

\* an unhandled rejection: the platform calls window.onunhandledrejection
unhandledRejection ==
    \E m \in ErrorMessages, bc \in BeforeCaptureResults :
        \E oe \in (IF bc = "pass" THEN OnErrorResults ELSE {"ok"}) :
            Dispatch("unhandledRejection", windowOnunhandledrejection,
                     originalOnUnhandledRejection,
                     createErrorInfo(m, "promise"), bc, oe)

\* the hooks of a page that may have handlers of its own before install()
InitHooks ==
    /\ InitCatcher
    /\ catcherOptions = DefaultCatcherOptions
    /\ windowOnerror \in {"none", "host"}
    /\ windowOnunhandledrejection \in {"none", "host"}
    /\ InitReporter
    /\ reporterOptions = DefaultReporterOptions
    /\ handed = Untracked

NextHooks ==
    \/ Tick
    \/ install
    \/ uninstall
    \/ globalError
    \/ unhandledRejection

SpecHooks == InitHooks /\ [][NextHooks]_vars

\* engines built enabled or disabled, in a page or where there is no window
InitInstall ==
    /\ InitEngine
    /\ isBrowser \in BOOLEAN
    /\ navigatorSendBeacon = isBrowser
    /\ catcherOptions \in {DefaultCatcherOptions,
                            [DefaultCatcherOptions EXCEPT !.enabled = FALSE]}
    /\ windowOnerror \in (IF isBrowser THEN {"none", "host"} ELSE {"none"})
    /\ windowOnunhandledrejection \in (IF isBrowser THEN {"none", "host"} ELSE {"none"})
    /\ InitReporter
    /\ reporterOptions = DefaultReporterOptions
    /\ handed = Untracked

NextInstall ==
    \/ install
    \/ uninstall
    \/ globalError
    \/ unhandledRejection

SpecInstall == InitInstall /\ [][NextInstall]_vars

(***************************************************************************)
(* reporter: ErrorReporter                                                 *)
(***************************************************************************)
\* what the callbacks given to the reporter may do when called
BeforeSendResults == {"pass", "veto", "throw"}
CallbackResults == {"ok", "throw"}

\* the values of Math.random(), as multiples of 1 / SampleScale in [0, 1)
RandomDraws == 0..(SampleScale - 1)

\* report(): `Math.random() > this.options.sampleRate`
sampledOut(draw, sampleRate) == draw > sampleRate

\* report() with a queue that must be longer than batchSize to flush at once
reachedBatchSizeStrict(q) == Len(q) > BatchSize

\* report(): `this.queue.length >= this.options.batchSize`
reachedBatchSize(q) == Len(q) >= BatchSize

\* sendWithRetry() retrying once more than maxRetries
shouldRetryOnceMore(a) == a <= MaxRetries

\* sendWithRetry(): `attempt < this.options.maxRetries`
shouldRetry(a) == a < MaxRetries

Min(a, b) == IF a < b THEN a ELSE b
Max(a, b) == IF a > b THEN a ELSE b

SeqToSet(s) == {s[i] : i \in 1..Len(s)}

\* store.getAll() returning the records from the last key to the first
RECURSIVE SortedSeqDescending(_)
SortedSeqDescending(S) ==
    IF S = {} THEN <<>>
    ELSE LET hi == CHOOSE x \in S : \A y \in S : x >= y
         IN  <<hi>> \o SortedSeqDescending(S \ {hi})

\* the ids of a set in key order, as store.getAll() returns them
RECURSIVE SortedSeq(_)
SortedSeq(S) ==
    IF S = {} THEN <<>>
    ELSE LET lo == CHOOSE x \in S : \A y \in S : x <= y
         IN  <<lo>> \o SortedSeq(S \ {lo})

\* a microtask can run: a flush() whose awaited initialization has finished
MicrotaskPending == flushWaiting # <<>> /\ ~opening

\* The engine reads the store only inside its transactions, so when a write
\* runs between the engine's other steps cannot be observed: a write at the
\* head of the pending transactions runs before any other step.  The start-up
\* read of loadCachedErrors() is what the engine waits for, and may be late.
WritePending == txq # <<>> /\ Head(txq).kind # "getAll"

\* the event loop can run a task of the page
TaskCanRun == ~MicrotaskPending /\ ~WritePending

\* the fields flush() works on
FlushState ==
    [queue |-> queue, isProcessing |-> isProcessing, batchTimer |-> batchTimer,
     inflight |-> inflight, attempt |-> attempt, sendCalls |-> sendCalls,
     flushWaiting |-> flushWaiting, timeouts |-> timeouts, out |-> "none",
     batch |-> <<>>]

SetFlushState(r) ==
    /\ queue' = r.queue
    /\ isProcessing' = r.isProcessing
    /\ batchTimer' = r.batchTimer
    /\ inflight' = r.inflight
    /\ attempt' = r.attempt
    /\ sendCalls' = r.sendCalls
    /\ flushWaiting' = r.flushWaiting
    /\ timeouts' = r.timeouts

\* setTimeout(callback, delay): the pending callbacks afterwards
setTimeout(pending, delay) == Append(pending, now + delay)

\* clearTimeout(handle): the handle the engine holds is that of the timeout it
\* created last, which is pending as long as the handle is set
clearTimeout(pending, handle) ==
    IF handle /\ pending # <<>> THEN SubSeq(pending, 1, Len(pending) - 1) ELSE pending

\* clearBatchTimer()
clearBatchTimer(r) ==
    IF r.batchTimer
    THEN [r EXCEPT !.batchTimer = FALSE, !.timeouts = clearTimeout(@, r.batchTimer)]
    ELSE r

\* startBatchTimer() starting the interval again on every call
startBatchTimerRestarting(r) ==
    [r EXCEPT !.batchTimer = TRUE,
              !.timeouts = setTimeout(clearTimeout(@, r.batchTimer), BatchInterval)]

\* startBatchTimer(): `if (this.batchTimer) return`, then setTimeout
startBatchTimer(r) ==
    IF r.batchTimer
    THEN r
    ELSE [r EXCEPT !.batchTimer = TRUE, !.timeouts = setTimeout(@, BatchInterval)]

\* flush() returning early on an empty queue only
flushNoopOnEmptyQueue(r) == r.queue = <<>>

\* flush(): `this.isProcessing || this.queue.length === 0`
flushNoop(r) == r.isProcessing \/ r.queue = <<>>

\* flush() putting a batch that beforeSend rejected back at the front of the queue
flushBodyRequeueing(r, beforeSend) ==
    IF flushNoop(r)
    THEN [r EXCEPT !.out = "skipped"]
    ELSE
      LET n == Min(BatchSize, Len(r.queue))
          errors == SubSeq(r.queue, 1, n)
          taken == [clearBatchTimer(r) EXCEPT
                             !.queue = SubSeq(r.queue, n + 1, Len(r.queue)),
                             !.batch = errors]
      IN  CASE beforeSend = "throw" ->
                 [taken EXCEPT !.isProcessing = TRUE, !.out = "beforeSendThrew"]
            [] beforeSend = "veto" ->
                 [taken EXCEPT !.queue = r.queue, !.isProcessing = FALSE,
                               !.out = "vetoed"]
            [] beforeSend = "pass" ->
                 [taken EXCEPT !.isProcessing = TRUE, !.inflight = errors,
                               !.attempt = 0, !.sendCalls = 1, !.out = "sending"]

\* flush() from the isProcessing check to the first send() call
flushBody(r, beforeSend) ==
    IF flushNoop(r)
    THEN [r EXCEPT !.out = "skipped"]
    ELSE
      LET n == Min(BatchSize, Len(r.queue))
          errors == SubSeq(r.queue, 1, n)
          taken == [clearBatchTimer(r) EXCEPT
                             !.queue = SubSeq(r.queue, n + 1, Len(r.queue)),
                             !.batch = errors]
      IN  CASE beforeSend = "throw" ->
                 [taken EXCEPT !.isProcessing = TRUE, !.out = "beforeSendThrew"]
            [] beforeSend = "veto" ->
                 [taken EXCEPT !.isProcessing = FALSE, !.out = "vetoed"]
            [] beforeSend = "pass" ->
                 [taken EXCEPT !.isProcessing = TRUE, !.inflight = errors,
                               !.attempt = 0, !.sendCalls = 1, !.out = "sending"]

\* a call of flush(): it suspends at `await this.initPromise` when there is one
flushCall(r, trigger, beforeSend) ==
    IF initPromise # "null"
    THEN [r EXCEPT !.flushWaiting = Append(@, trigger), !.out = "waiting"]
    ELSE flushBody(r, beforeSend)

\* a flush() call can be followed: the calls waiting on the initialization are bounded
CanFlush == initPromise # "null" => Len(flushWaiting) < MaxWaiting

\* the history of the batches given to send(), after a step that ended as l
HandedAfter(l) ==
    IF handed # Untracked /\ l.out = "sending"
    THEN handed \cup SeqToSet(l.batch)
    ELSE handed

storageVars == <<db, initialized, initPromise, boundUnloadHandler, opening, store, txq>>

\* ErrorReporter.report
report ==
    \E draw \in RandomDraws, bs \in BeforeSendResults :
        /\ nextId <= MaxRecords
        /\ CanFlush
        /\ ~WritePending
        /\ nextId' = nextId + 1
        /\ IF sampledOut(draw, reporterOptions.sampleRate)
           THEN /\ rlast' = [NoRLast EXCEPT !.op = "report", !.out = "sampledOut"]
                /\ UNCHANGED <<queue, isProcessing, batchTimer, timeouts, inflight, attempt,
                               sendCalls, flushWaiting>>
           ELSE LET pushed == [FlushState EXCEPT !.queue = Append(queue, nextId)]
                    r == IF reachedBatchSize(pushed.queue)
                         THEN flushCall(pushed, "threshold", bs)
                         ELSE [startBatchTimer(pushed) EXCEPT !.out = "timer"]
                IN  /\ SetFlushState(r)
                    /\ rlast' = [NoRLast EXCEPT !.op = "report", !.out = r.out,
                                                !.batch = r.batch]
        /\ UNCHANGED <<now, catcherVars, reporterOptions, storageVars, recovered, failedStored>>
        /\ handed' = HandedAfter(rlast')

\* ErrorReporter.flush, called by the application
flush ==
    \E bs \in BeforeSendResults :
        /\ CanFlush
        /\ ~WritePending
        /\ LET r == flushCall(FlushState, "explicit", bs)
           IN  /\ SetFlushState(r)
               /\ rlast' = [NoRLast EXCEPT !.op = "flush", !.by = "explicit",
                                           !.out = r.out, !.batch = r.batch]
        /\ UNCHANGED <<now, catcherVars, reporterOptions, storageVars, nextId, recovered, failedStored>>
        /\ handed' = HandedAfter(rlast')

\* the callback of startBatchTimer(): `this.batchTimer = null`, before flush()
timerCallback(r) == [r EXCEPT !.batchTimer = FALSE]

\* a batch timer fires: the callback of startBatchTimer()
TimerFire ==
    \E bs \in BeforeSendResults, i \in 1..Len(timeouts) :
        /\ TaskCanRun
        /\ CanFlush
        /\ LET fired == [FlushState EXCEPT
                            !.timeouts = SubSeq(@, 1, i - 1) \o SubSeq(@, i + 1, Len(@))]
               r == flushCall(timerCallback(fired), "timer", bs)
           IN  /\ SetFlushState(r)
               /\ rlast' = [NoRLast EXCEPT !.op = "timer", !.by = "timer",
                                           !.out = r.out, !.batch = r.batch]
        /\ UNCHANGED <<now, catcherVars, reporterOptions, storageVars, nextId, recovered, failedStored>>
        /\ handed' = HandedAfter(rlast')

\* a suspended flush() resumes after `await this.initPromise`
FlushResume ==
    \E bs \in BeforeSendResults :
        /\ MicrotaskPending
        /\ ~WritePending
        /\ LET r == flushBody([FlushState EXCEPT !.flushWaiting = Tail(@)], bs)
           IN  /\ SetFlushState(r)
               /\ rlast' = [NoRLast EXCEPT !.op = "flush", !.by = Head(flushWaiting),
                                           !.out = r.out, !.batch = r.batch]
        /\ UNCHANGED <<now, catcherVars, reporterOptions, storageVars, nextId, recovered, failedStored>>
        /\ handed' = HandedAfter(rlast')

\* saveToCache(errors): the transactions afterwards
saveToCache(q, errors, by) ==
    IF db THEN Append(q, [kind |-> "save", ids |-> errors, by |-> by]) ELSE q

\* removeFromCache(errorIds): the transactions afterwards
removeFromCache(q, errorIds) ==
    IF db THEN Append(q, [kind |-> "remove", ids |-> errorIds, by |-> "flush"]) ELSE q

\* saveToCache() storing the whole batch whatever the store holds
errorsToSaveAll(errors, currentCount) == errors

\* saveToCache(): `errors.slice(0, Math.max(0, availableSlots))`
errorsToSave(errors, currentCount) ==
    SubSeq(errors, 1, Min(Len(errors), Max(0, MaxOfflineCacheSize - currentCount)))

\* IndexedDB has not fallen behind: a step may create a transaction
CanTransact == Len(txq) < MaxTransactions

\* the finally block of flush()
flushFinally ==
    /\ isProcessing' = FALSE
    /\ LET r == IF queue # <<>> THEN startBatchTimer(FlushState) ELSE FlushState
       IN  batchTimer' = r.batchTimer /\ timeouts' = r.timeouts
    /\ inflight' = <<>>
    /\ attempt' = 0
    /\ sendCalls' = 0

\* fetch() resolves with an ok response: flush() after `await this.sendWithRetry`
SendOk ==
    \E onSuccess \in CallbackResults :
        \E onError \in (IF onSuccess = "throw" THEN CallbackResults ELSE {"ok"}) :
            /\ inflight # <<>>
            /\ TaskCanRun
            /\ CanTransact
            /\ txq' = IF onSuccess = "throw"
                      THEN saveToCache(removeFromCache(txq, inflight), inflight,
                                       "onSuccessThrew")
                      ELSE removeFromCache(txq, inflight)
            /\ flushFinally
            /\ rlast' = [NoRLast EXCEPT !.op = "sendOk", !.batch = inflight,
                            !.sends = sendCalls, !.fails = attempt, !.onSuccess = 1,
                            !.onError = IF onSuccess = "throw" THEN 1 ELSE 0,
                            !.threw = (onSuccess = "throw" /\ onError = "throw")]
            /\ UNCHANGED <<now, catcherVars, reporterOptions, queue, db, initialized,
                           initPromise, boundUnloadHandler, opening, flushWaiting,
                           store, nextId, recovered, failedStored, handed>>

\* fetch() rejects, times out or answers non-2xx: the catch of sendWithRetry()
SendFail ==
    \E onError \in CallbackResults :
        /\ inflight # <<>>
        /\ TaskCanRun
        /\ CanTransact
        /\ IF shouldRetry(attempt)
           THEN /\ attempt' = attempt + 1
                /\ sendCalls' = sendCalls + 1
                /\ rlast' = [NoRLast EXCEPT !.op = "retry", !.batch = inflight,
                                            !.sends = sendCalls + 1,
                                            !.fails = attempt + 1]
                /\ UNCHANGED <<isProcessing, batchTimer, timeouts, inflight, txq>>
           ELSE /\ txq' = saveToCache(txq, inflight, "sendFailed")
                /\ flushFinally
                /\ rlast' = [NoRLast EXCEPT !.op = "sendFailed", !.batch = inflight,
                                !.sends = sendCalls, !.fails = attempt + 1,
                                !.onError = 1,
                                !.threw = (onError = "throw")]
        /\ UNCHANGED <<now, catcherVars, reporterOptions, queue, db, initialized,
                       initPromise, boundUnloadHandler, opening, flushWaiting,
                       store, nextId, recovered, failedStored, handed>>

\* indexedDB.open() succeeds: request.onsuccess of initDB(), then the rest of init()
InitDBSuccess ==
    /\ opening
    /\ TaskCanRun
    /\ opening' = FALSE
    /\ db' = TRUE
    /\ txq' = Append(txq, [kind |-> "getAll", ids |-> <<>>, by |-> "load"])
    /\ boundUnloadHandler' = TRUE
    /\ initialized' = TRUE
    /\ rlast' = [NoRLast EXCEPT !.op = "initDB", !.out = "open"]
    /\ UNCHANGED <<now, catcherVars, reporterOptions, queue, isProcessing, batchTimer, timeouts,
                   initPromise, flushWaiting, inflight, attempt, store, nextId,
                   sendCalls, recovered, failedStored, handed>>

\* indexedDB.open() fails: request.onerror of initDB(), then the rest of init()
InitDBError ==
    /\ opening
    /\ TaskCanRun
    /\ opening' = FALSE
    /\ boundUnloadHandler' = TRUE
    /\ initialized' = TRUE
    /\ rlast' = [NoRLast EXCEPT !.op = "initDB", !.out = "error"]
    /\ UNCHANGED <<now, catcherVars, reporterOptions, queue, isProcessing, batchTimer, timeouts,
                   db, initPromise, flushWaiting, inflight, attempt, store, txq, nextId,
                   sendCalls, recovered, failedStored, handed>>

\* IndexedDB runs the oldest transaction and calls its request's onsuccess
IdbStep ==
    /\ txq # <<>>
    /\ WritePending \/ ~MicrotaskPending
    /\ LET tx == Head(txq)
           cachedErrors == SortedSeq(store)
       IN  /\ CASE tx.kind = "getAll" ->
                    \* loadCachedErrors(): request.onsuccess
                    IF cachedErrors # <<>>
                    THEN /\ queue' = queue \o cachedErrors
                         /\ txq' = IF db
                                   THEN Append(Tail(txq), [kind |-> "clear", ids |-> <<>>,
                                                           by |-> "load"])
                                   ELSE Tail(txq)
                         /\ batchTimer' = startBatchTimer(FlushState).batchTimer
                         /\ timeouts' = startBatchTimer(FlushState).timeouts
                         /\ recovered' = recovered \cup store
                         /\ UNCHANGED <<store, failedStored>>
                    ELSE /\ txq' = Tail(txq)
                         /\ UNCHANGED <<queue, batchTimer, timeouts, store, recovered, failedStored>>
                [] tx.kind = "save" ->
                    \* saveToCache(): countRequest.onsuccess
                    /\ store' = store \cup SeqToSet(errorsToSave(tx.ids, Cardinality(store)))
                    /\ txq' = Tail(txq)
                    /\ failedStored' =
                          IF tx.by = "sendFailed"
                          THEN failedStored
                               \cup SeqToSet(errorsToSave(tx.ids, Cardinality(store)))
                          ELSE failedStored
                    /\ UNCHANGED <<queue, batchTimer, timeouts, recovered>>
                [] tx.kind = "clear" ->
                    /\ store' = {}
                    /\ txq' = Tail(txq)
                    /\ UNCHANGED <<queue, batchTimer, timeouts, recovered, failedStored>>
                [] tx.kind = "remove" ->
                    /\ store' = store \ SeqToSet(tx.ids)
                    /\ txq' = Tail(txq)
                    /\ UNCHANGED <<queue, batchTimer, timeouts, recovered, failedStored>>
           /\ rlast' = [NoRLast EXCEPT !.op = "idb", !.out = tx.kind, !.by = tx.by,
                           !.batch = IF tx.kind = "getAll" THEN cachedErrors ELSE tx.ids]
    /\ UNCHANGED <<now, catcherVars, reporterOptions, isProcessing, db, initialized,
                   initPromise, boundUnloadHandler, opening, flushWaiting, inflight,
                   attempt, nextId, sendCalls, handed>>

\* what the synchronous XMLHttpRequest of sendOnUnload() may do
XhrResults == {"ok", "status", "threw"}

\* env.ts supportsBeacon()
supportsBeacon == isBrowser /\ navigatorSendBeacon

\* sendOnUnload() going to durable storage without trying a transport
sendOnUnloadStorageFirst(useBeacon, beaconSupported, sent, xhr) ==
    [used |-> <<"storage">>, out |-> "xhrThrew"]

\* sendOnUnload() after beforeSend: the transports used, in order, and the
\* outcome.  `sent` is what navigator.sendBeacon() returns, `xhr` whether the
\* synchronous request ends with a 2xx status, another status or an exception.
sendOnUnload(useBeacon, beaconSupported, sent, xhr) ==
    LET beacon == IF useBeacon /\ beaconSupported THEN <<"beacon">> ELSE <<>>
    IN  IF beacon # <<>> /\ sent
        THEN [used |-> beacon, out |-> "beaconSent"]
        ELSE CASE xhr = "ok" -> [used |-> beacon \o <<"xhr">>, out |-> "xhrOk"]
               [] xhr = "status" -> [used |-> beacon \o <<"xhr">>, out |-> "xhrStatus"]
               [] xhr = "threw" ->
                     [used |-> beacon \o <<"xhr", "storage">>, out |-> "xhrThrew"]

\* the page is hidden: handleUnload() and sendOnUnload()
PageHide ==
    \E bs \in BeforeSendResults :
        /\ boundUnloadHandler
        /\ TaskCanRun
        /\ CanTransact
        /\ IF queue = <<>>
           THEN /\ rlast' = [NoRLast EXCEPT !.op = "sendOnUnload", !.out = "empty"]
                /\ UNCHANGED <<queue, txq>>
           ELSE IF bs # "pass"
           THEN /\ rlast' = [NoRLast EXCEPT !.op = "sendOnUnload", !.batch = queue,
                                !.out = IF bs = "veto" THEN "vetoed" ELSE "beforeSendThrew",
                                !.threw = (bs = "throw")]
                /\ UNCHANGED <<queue, txq>>
           ELSE \E sent \in (IF reporterOptions.useBeacon /\ supportsBeacon
                              THEN BOOLEAN ELSE {FALSE}) :
                  \E xhr \in (IF sent THEN {"ok"} ELSE XhrResults) :
                    LET r == sendOnUnload(reporterOptions.useBeacon, supportsBeacon,
                                          sent, xhr)
                    IN  /\ queue' = IF r.out \in {"beaconSent", "xhrOk"}
                                    THEN <<>> ELSE queue
                        /\ txq' = IF "storage" \in SeqToSet(r.used)
                                  THEN saveToCache(txq, queue, "unload")
                                  ELSE txq
                        /\ rlast' = [NoRLast EXCEPT !.op = "sendOnUnload",
                                        !.batch = queue, !.out = r.out, !.used = r.used]
        /\ UNCHANGED <<now, catcherVars, reporterOptions, isProcessing, batchTimer, timeouts, db,
                       initialized, initPromise, boundUnloadHandler, opening,
                       flushWaiting, inflight, attempt, store, nextId, sendCalls,
                       recovered, failedStored, handed>>

\* ErrorReporter.clearQueue
clearQueue ==
    /\ ~WritePending
    /\ queue' = <<>>
    /\ batchTimer' = clearBatchTimer(FlushState).batchTimer
    /\ timeouts' = clearBatchTimer(FlushState).timeouts
    /\ rlast' = [NoRLast EXCEPT !.op = "clearQueue", !.batch = queue]
    /\ UNCHANGED <<now, catcherVars, reporterOptions, isProcessing, storageVars,
                   flushWaiting, inflight, attempt, nextId, sendCalls, recovered, failedStored,
                   handed>>

\* ErrorReporter.destroy
destroy ==
    /\ ~WritePending
    /\ batchTimer' = clearBatchTimer(FlushState).batchTimer
    /\ timeouts' = clearBatchTimer(FlushState).timeouts
    /\ boundUnloadHandler' = FALSE
    /\ txq' = IF queue # <<>> THEN saveToCache(txq, queue, "destroy") ELSE txq
    /\ queue' = <<>>
    /\ db' = FALSE
    /\ initialized' = FALSE
    /\ initPromise' = "null"
    /\ rlast' = [NoRLast EXCEPT !.op = "destroy", !.batch = queue]
    /\ UNCHANGED <<now, catcherVars, reporterOptions, isProcessing, opening,
                   flushWaiting, inflight, attempt, store, nextId, sendCalls, recovered, failedStored,
                   handed>>

\* the page is loaded again: a fresh ErrorReporter over the same IndexedDB store
Reload ==
    /\ txq = <<>>
    /\ queue' = <<>>
    /\ isProcessing' = FALSE
    /\ batchTimer' = FALSE
    /\ timeouts' = <<>>
    /\ db' = FALSE
    /\ initialized' = FALSE
    /\ initPromise' = "promise"
    /\ boundUnloadHandler' = FALSE
    /\ opening' = TRUE
    /\ flushWaiting' = <<>>
    /\ inflight' = <<>>
    /\ attempt' = 0
    /\ sendCalls' = 0
    /\ recovered' = {}
    /\ handed' = IF handed = Untracked THEN handed ELSE {}
    /\ rlast' = [NoRLast EXCEPT !.op = "construct"]
    /\ UNCHANGED <<now, catcherVars, reporterOptions, store, txq, nextId, failedStored>>

\* the delivery engine with its default sampleRate
InitDelivery ==
    /\ InitCatcher
    /\ catcherOptions = DefaultCatcherOptions
    /\ windowOnerror = "none"
    /\ windowOnunhandledrejection = "none"
    /\ InitReporter
    /\ reporterOptions = DefaultReporterOptions
    /\ handed = Untracked

\* the application reports and leaves the flushing to the engine
NextDelivery ==
    \/ report
    \/ TimerFire
    \/ FlushResume
    \/ SendOk
    \/ SendFail
    \/ InitDBSuccess
    \/ InitDBError
    \/ IdbStep
    \/ PageHide
    \/ clearQueue
    \/ destroy
    \/ Reload

SpecDelivery == InitDelivery /\ [][NextDelivery]_vars

\* the delivery engine sampling: sampleRate is 0, then 1 / SampleScale, ...
InitSampling ==
    /\ InitCatcher
    /\ catcherOptions = DefaultCatcherOptions
    /\ windowOnerror = "none"
    /\ windowOnunhandledrejection = "none"
    /\ InitReporter
    /\ reporterOptions \in {[DefaultReporterOptions EXCEPT !.sampleRate = rate] :
                               rate \in 0..(SampleScale - 1)}
    /\ handed = Untracked

\* the application also calls flush() itself
NextSampling ==
    \/ flush
    \/ NextDelivery

SpecSampling == InitSampling /\ [][NextSampling]_vars

\* the delivery engine flushed by its timer, by report() and by the application,
\* with the history of the batches it gave to send()
InitFlush ==
    /\ InitCatcher
    /\ catcherOptions = DefaultCatcherOptions
    /\ windowOnerror = "none"
    /\ windowOnunhandledrejection = "none"
    /\ InitReporter
    /\ reporterOptions = DefaultReporterOptions
    /\ handed = {}

\* every way a flush() starts and ends within one page load
NextFlush ==
    \/ report
    \/ flush
    \/ TimerFire
    \/ FlushResume
    \/ SendOk
    \/ SendFail
    \/ InitDBSuccess
    \/ InitDBError
    \/ IdbStep
    \/ PageHide
    \/ clearQueue
    \/ destroy

SpecFlush == InitFlush /\ [][NextFlush]_vars

\* the queue across page loads, outside the unload path
NextOrder ==
    \/ report
    \/ flush
    \/ TimerFire
    \/ FlushResume
    \/ SendOk
    \/ SendFail
    \/ InitDBSuccess
    \/ InitDBError
    \/ IdbStep
    \/ clearQueue
    \/ Reload

SpecOrder == InitFlush /\ [][NextOrder]_vars

\* the event loop runs a timeout callback once its delay has passed
TimeoutsDue == \A i \in 1..Len(timeouts) : timeouts[i] <= now

\* the delivery engine within one page load, on the clock its timers run by
NextTimer ==
    \/ report
    \/ TimeoutsDue /\ TimerFire
    \/ FlushResume
    \/ SendOk
    \/ SendFail
    \/ InitDBSuccess
    \/ IdbStep
    \/ PageHide
    \/ clearQueue
    \/ Tick

SpecTimer == InitDelivery /\ [][NextTimer]_vars

\* pages with and without navigator.sendBeacon, engines with either useBeacon
InitUnload ==
    /\ InitEngine
    /\ isBrowser = TRUE
    /\ navigatorSendBeacon \in BOOLEAN
    /\ catcherOptions = DefaultCatcherOptions
    /\ windowOnerror = "none"
    /\ windowOnunhandledrejection = "none"
    /\ InitReporter
    /\ reporterOptions \in {[DefaultReporterOptions EXCEPT !.useBeacon = b] :
                               b \in BOOLEAN}
    /\ handed = Untracked

\* the queue filled by report() and by the start-up recovery, emptied by the
\* flushes report() starts and by the page-hide drain, over an IndexedDB that opens
NextUnload ==
    \/ report
    \/ FlushResume
    \/ SendOk
    \/ SendFail
    \/ InitDBSuccess
    \/ IdbStep
    \/ PageHide
    \/ Reload

SpecUnload == InitUnload /\ [][NextUnload]_vars

\* the flushes of one page load, every pending callback run in the end: a send
\* attempt completes or times out (the AbortController of send()), a flush
\* waiting on the initialization resumes, indexedDB.open() calls back and the
\* storage transactions complete
NextSettle ==
    \/ report
    \/ flush
    \/ FlushResume
    \/ SendOk
    \/ SendFail
    \/ InitDBSuccess
    \/ InitDBError
    \/ IdbStep

SpecSettle ==
    /\ InitDelivery
    /\ [][NextSettle]_vars
    /\ WF_vars(SendOk \/ SendFail)
    /\ WF_vars(FlushResume)
    /\ WF_vars(InitDBSuccess \/ InitDBError)
    /\ WF_vars(IdbStep)

(***************************************************************************)
(* utils/fingerprint.ts on the characters of a record                      *)
(***************************************************************************)
\* the stack lines a record of the model may have, after its first line
MaxStackFrames == 5
\* extractKeyFrames: maxFrames
MaxFrames == 3

IsDigit(c) == c \in {"0", "1", "2", "3", "4", "5", "6", "7", "8", "9"}
IsSpace(c) == c \in {" ", "\t", "\n"}

\* the length of the run of digits of line that starts at i
RECURSIVE DigitRun(_, _)
DigitRun(line, i) ==
    IF i <= Len(line) /\ IsDigit(line[i]) THEN 1 + DigitRun(line, i + 1) ELSE 0

\* the length of the match of /:\d+:\d+/ at i of line, 0 when there is none
LineColumnMatch(line, i) ==
    IF line[i] # ":" THEN 0
    ELSE LET lineno == DigitRun(line, i + 1)
             colon == i + 1 + lineno
         IN  IF lineno = 0 \/ colon > Len(line) \/ line[colon] # ":" THEN 0
             ELSE LET colno == DigitRun(line, colon + 1)
                  IN  IF colno = 0 THEN 0 ELSE 2 + lineno + colno

\* line.replace(...) leaving the line as it is
keepLineColumn(line, i) == SubSeq(line, i, Len(line))

\* line.replace(/:\d+:\d+/g, ''), from position i on
RECURSIVE removeLineColumn(_, _)
removeLineColumn(line, i) ==
    IF i > Len(line) THEN <<>>
    ELSE LET matched == LineColumnMatch(line, i)
         IN  IF matched > 0
             THEN removeLineColumn(line, i + matched)
             ELSE <<line[i]>> \o removeLineColumn(line, i + 1)

RECURSIVE TrimStart(_)
TrimStart(text) ==
    IF text # <<>> /\ IsSpace(Head(text)) THEN TrimStart(Tail(text)) ELSE text

RECURSIVE TrimEnd(_)
TrimEnd(text) ==
    IF text # <<>> /\ IsSpace(text[Len(text)])
    THEN TrimEnd(SubSeq(text, 1, Len(text) - 1))
    ELSE text

\* String.prototype.trim
Trim(text) == TrimEnd(TrimStart(text))

\* text.split('\n')
RECURSIVE SplitLines(_)
SplitLines(text) ==
    IF \E i \in 1..Len(text) : text[i] = "\n"
    THEN LET i == CHOOSE k \in 1..Len(text) :
                     text[k] = "\n" /\ \A j \in 1..(k - 1) : text[j] # "\n"
         IN  <<SubSeq(text, 1, i - 1)>> \o SplitLines(SubSeq(text, i + 1, Len(text)))
    ELSE <<text>>

\* parts.join(separator)
RECURSIVE Join(_, _)
Join(parts, separator) ==
    IF parts = <<>> THEN <<>>
    ELSE IF Len(parts) = 1 THEN parts[1]
    ELSE parts[1] \o separator \o Join(Tail(parts), separator)

\* extractKeyFrames on the characters of the stack (<<>> is no stack)
extractKeyFramesChars(stack) ==
    IF stack = <<>> THEN <<>>
    ELSE LET frames == SelectSeq(Tail(SplitLines(stack)), LAMBDA line : Trim(line) # <<>>)
             lines == SubSeq(frames, 1, Min(MaxFrames, Len(frames)))
         IN  Join([k \in 1..Len(lines) |-> Trim(removeLineColumn(lines[k], 1))], <<"|">>)

\* String.prototype.charCodeAt for the characters of the model's records
CharCode(c) ==
    CASE c = "\n" -> 10 [] c = " " -> 32 [] c = "(" -> 40 [] c = ")" -> 41
      [] c = "." -> 46 [] c = "1" -> 49 [] c = "2" -> 50 [] c = "3" -> 51
      [] c = "4" -> 52 [] c = "5" -> 53 [] c = ":" -> 58 [] c = "@" -> 64
      [] c = "C" -> 67 [] c = "E" -> 69 [] c = "T" -> 84 [] c = "a" -> 97
      [] c = "b" -> 98 [] c = "f" -> 102 [] c = "g" -> 103 [] c = "j" -> 106
      [] c = "m" -> 109 [] c = "r" -> 114 [] c = "s" -> 115 [] c = "t" -> 116
      [] c = "|" -> 124

\* half of a 32-bit word: the hash is kept as <<high half, low half>>
Half == 65536

\* simpleHash: one round of `hash = ((hash << 5) - hash) + char; hash = hash & hash`
HashRound(hash, code) ==
    LET low == 31 * hash[2] + code
    IN  <<(31 * hash[1] + low \div Half) % Half, low % Half>>

\* simpleHash: the rounds of the characters from..upto of text, in order (the
\* halves of a hash are never negative: the test makes TLC evaluate the hash
\* of the left part before it descends into the right part)
RECURSIVE HashFrom(_, _, _, _)
HashFrom(hash, text, from, upto) ==
    IF from > upto \/ hash[1] < 0 THEN hash
    ELSE IF from = upto THEN HashRound(hash, CharCode(text[from]))
    ELSE LET middle == (from + upto) \div 2
         IN  HashFrom(HashFrom(hash, text, from, middle), text, middle + 1, upto)

\* simpleHash: Math.abs of the 32-bit hash, which toString(36) renders one to one
simpleHash(text) ==
    LET hash == HashFrom(<<0, 0>>, text, 1, Len(text))
    IN  IF hash[1] < Half \div 2 THEN hash
        ELSE IF hash[2] = 0 THEN <<(Half - hash[1]) % Half, 0>>
        ELSE <<Half - 1 - hash[1], Half - hash[2]>>

\* generateFingerprint on the characters of the record
generateFingerprintChars(error) ==
    LET parts == <<error.name, error.message, error.source,
                   extractKeyFramesChars(error.stack)>>
                 \o (IF error.componentName # <<>> THEN <<error.componentName>> ELSE <<>>)
    IN  simpleHash(Join(SelectSeq(parts, LAMBDA part : part # <<>>), <<":", ":">>))

\* line i of a stack after its first line: a V8 frame, a SpiderMonkey frame or
\* a blank line, at the position pos = <<line number, column number>>
FrameChars(i, pos) ==
    CASE i % 3 = 1 -> <<" ", " ", "a", "t", " ", "f", " ", "(", "a", ".", "j", "s", ":">>
                      \o pos[1] \o <<":">> \o pos[2] \o <<")">>
      [] i % 3 = 2 -> <<"g", "@", "b", ".", "j", "s", ":">> \o pos[1] \o <<":">> \o pos[2]
      [] OTHER -> <<" ", " ">>

\* the positions a frame may have
FramePositions == {<<<<"1">>, <<"2">>>>, <<<<"3", "4">>, <<"5">>>>}

\* the record of an input d of the model: the stack is a first line and then
\* d.frames lines, line i at position d.pos[i]
RecordOf(d) ==
    [id |-> d.id, timestamp |-> d.timestamp, name |-> d.name, message |-> d.message,
     source |-> <<"r">>, componentName |-> d.componentName,
     stack |-> IF d.frames = 0 THEN <<>>
               ELSE Join(<<<<"E", ":", " ", "m">>>>
                         \o [i \in 1..d.frames |-> FrameChars(i, d.pos[i])], <<"\n">>)]

FirstPositions == [i \in 1..MaxStackFrames |-> <<<<"1">>, <<"2">>>>]

\* the first record of a pair
FingerprintInputs ==
    [id : {1}, timestamp : {0}, name : {<<"E">>, <<"T">>}, message : {<<>>, <<"m">>},
     componentName : {<<>>, <<"C">>}, frames : 0..MaxStackFrames, pos : {FirstPositions}]

\* the second record of a pair: the first one with other positions, another id
\* and timestamp, and at most one other field changed
FingerprintVariants(d) ==
    LET moved == {[d EXCEPT !.pos = pos, !.id = 2, !.timestamp = 1] :
                      pos \in [1..MaxStackFrames -> FramePositions]}
    IN  moved
        \cup {[e EXCEPT !.name = <<"T">>] : e \in moved}
        \cup {[e EXCEPT !.message = <<"m">>] : e \in moved}
        \cup {[e EXCEPT !.componentName = <<"C">>] : e \in moved}
        \cup {[e EXCEPT !.frames = (d.frames + 1) % (MaxStackFrames + 1)] : e \in moved}

\* generateFingerprint is called on two records (the function keeps no state:
\* one pair of calls per behaviour)
fingerprintPair ==
    \E a \in FingerprintInputs :
        \E b \in FingerprintVariants(a) :
            /\ call = NoCall
            /\ call' = [fn |-> "generateFingerprint", args |-> <<a, b>>,
                        result |-> <<generateFingerprintChars(RecordOf(a)),
                                     generateFingerprintChars(RecordOf(b))>>]
            /\ UNCHANGED <<now, catcherState, admitted, isBrowser, navigatorSendBeacon, breadcrumbs,
                           crumbsAdded, counter, issued, reporterVars>>

\* a capture engine and a reporter as constructed, for the calls of the utilities
InitUtils ==
    /\ InitCatcher
    /\ catcherOptions = DefaultCatcherOptions
    /\ windowOnerror = "none"
    /\ windowOnunhandledrejection = "none"
    /\ InitReporter
    /\ reporterOptions = DefaultReporterOptions
    /\ handed = Untracked

NextFingerprint ==
    \/ fingerprintPair

SpecFingerprint == InitUtils /\ [][NextFingerprint]_vars

(***************************************************************************)
(* utils/id.ts and the id generator of the Vue plugin                      *)
(***************************************************************************)
\* the modulus of the id counter (1000 in generateErrorId)
IdCounterWrap == 3
\* the number of ids generated in a behaviour
MaxIdCalls == 4
\* the outcomes of Math.random().toString(36).slice(2, 9)
IdRandoms == {"a1b2c3d", "x9y8z7w"}

\* generateErrorId: `err_${timestamp}_${random}_${count}`
generateErrorId ==
    /\ Len(issued) < MaxIdCalls
    /\ \E random \in IdRandoms :
           LET id == <<"err", now, random, counter % IdCounterWrap>>
           IN  /\ issued' = Append(issued, id)
               /\ call' = [fn |-> "generateErrorId", args |-> <<>>, result |-> <<id>>]
    /\ counter' = counter + 1
    /\ UNCHANGED <<now, catcherState, admitted, isBrowser, navigatorSendBeacon, breadcrumbs, crumbsAdded,
                   reporterVars>>

\* generateId of the Vue plugin: `err_${Date.now()}_${random}`
generateId ==
    /\ Len(issued) < MaxIdCalls
    /\ \E random \in IdRandoms :
           LET id == <<"err", now, random>>
           IN  /\ issued' = Append(issued, id)
               /\ call' = [fn |-> "generateId", args |-> <<>>, result |-> <<id>>]
    /\ UNCHANGED <<now, catcherState, admitted, isBrowser, navigatorSendBeacon, breadcrumbs, crumbsAdded,
                   counter, reporterVars>>

NextIds ==
    \/ Tick
    \/ generateErrorId
    \/ generateId

SpecIds == InitUtils /\ [][NextIds]_vars

(***************************************************************************)
(* catcher: the records built from raw values                              *)
(***************************************************************************)
\* the values captureError is called with: a native Error (any name and
\* message), a string, an object with a string message (with or without a
\* name), an object without one, and undefined
RawInputs ==
    [kind : {"Error"}, name : {"Error", "TypeError", ""}, message : {"boom", ""}]
    \cup [kind : {"string"}, value : {"boom", ""}]
    \cup [kind : {"object"}, name : {"TypeError", "", "absent"}, message : {"boom", ""}]
    \cup [kind : {"plain", "undefined"}]

\* the number of raw values captured in a behaviour
MaxRawCaptures == 2

\* the texts captureMessage is called with
RawTexts == {"boom", ""}

\* normalizeError: the Error a raw value becomes
normalizeError(raw) ==
    CASE raw.kind = "Error" ->
            [name |-> raw.name, message |-> raw.message, stack |-> "native"]
      [] raw.kind = "string" ->
            [name |-> "Error", message |-> raw.value, stack |-> "native"]
      [] raw.kind = "object" ->
            [name |-> IF raw.name = "absent" THEN "Error" ELSE raw.name,
             message |-> raw.message, stack |-> "native"]
      \* new Error(JSON.stringify(error))
      [] raw.kind = "plain" -> [name |-> "Error", message |-> "{}", stack |-> "native"]
      \* new Error(String(error))
      [] raw.kind = "undefined" ->
            [name |-> "Error", message |-> "undefined", stack |-> "native"]

\* ErrorCatcher.createErrorInfo on the Error normalizeError returned, with the
\* id generateErrorId gave it
createErrorInfoOf(error, source, id) ==
    LET info == [name |-> IF error.name = "" THEN "Error" ELSE error.name,
                 message |-> IF error.message = "" THEN "Unknown error" ELSE error.message,
                 source |-> source, stack |-> error.stack]
    IN  info @@ [fingerprint |-> generateFingerprint(info), id |-> id]

\* the record captureMessage builds from the text
createMessageInfoOf(message, id) ==
    LET info == [name |-> "Message", message |-> message, source |-> "manual",
                 stack |-> "none"]
    IN  info @@ [fingerprint |-> generateFingerprint(info), id |-> id]

\* the record onError was called with, if the run r of the pipeline called it
HandedToOnError(r, errorInfo) ==
    IF r.outcome = "emitted" THEN <<errorInfo>> ELSE <<>>

\* a capture of a raw value: the record gets its id from generateErrorId and
\* goes through the pipeline
CaptureRaw(op, raw, errorInfo, beforeCapture, onError) ==
    /\ Len(issued) < MaxRawCaptures
    /\ RunPipeline(op, errorInfo, beforeCapture, onError)
    /\ counter' = counter + 1
    /\ issued' = Append(issued, errorInfo.id)
    /\ call' = [fn |-> op, args |-> <<raw>>,
                result |-> HandedToOnError(processError(catcherOptions,
                               [cache |-> fingerprintCache, calls |-> rateLimiterCalls],
                               errorInfo, now, beforeCapture, onError), errorInfo)]

\* ErrorCatcher.captureError on a raw value
captureErrorValue ==
    \E raw \in RawInputs, random \in IdRandoms, bc \in BeforeCaptureResults :
        \E oe \in (IF bc = "pass" THEN OnErrorResults ELSE {"ok"}) :
            CaptureRaw("captureError", raw,
                       createErrorInfoOf(normalizeError(raw), "manual",
                                         <<"err", now, random, counter % IdCounterWrap>>),
                       bc, oe)

\* ErrorCatcher.captureMessage on a text
captureMessageText ==
    \E text \in RawTexts, random \in IdRandoms, bc \in BeforeCaptureResults :
        \E oe \in (IF bc = "pass" THEN OnErrorResults ELSE {"ok"}) :
            CaptureRaw("captureMessage", text,
                       createMessageInfoOf(text,
                                           <<"err", now, random, counter % IdCounterWrap>>),
                       bc, oe)

NextRaw ==
    \/ Tick
    \/ captureErrorValue
    \/ captureMessageText
    \/ clearFingerprintCache
    \/ resetRateLimiter

SpecRaw == InitUtils /\ [][NextRaw]_vars

(***************************************************************************)
(* catcher: the breadcrumb ring                                            *)
(***************************************************************************)
\* what addBreadcrumb is called with
BreadcrumbInputs == {"click", "navigation"}

\* the loop of addBreadcrumb dropping the newest entry
popWhileOver(crumbs, maxBreadcrumbs) ==
    SubSeq(crumbs, 1, Min(Len(crumbs), maxBreadcrumbs))

\* `while (this.breadcrumbs.length > this.options.maxBreadcrumbs) this.breadcrumbs.shift()`
RECURSIVE shiftWhileOver(_, _)
shiftWhileOver(crumbs, maxBreadcrumbs) ==
    IF Len(crumbs) > maxBreadcrumbs
    THEN shiftWhileOver(Tail(crumbs), maxBreadcrumbs)
    ELSE crumbs

\* ErrorCatcher.addBreadcrumb; n is the number of the call since the ring was
\* last empty by construction or clearBreadcrumbs
addBreadcrumb ==
    /\ crumbsAdded < MaxCrumbsAdded
    /\ \E input \in BreadcrumbInputs :
           LET crumb == [type |-> input, timestamp |-> now, n |-> crumbsAdded + 1]
           IN  breadcrumbs' = shiftWhileOver(Append(breadcrumbs, crumb),
                                             catcherOptions.maxBreadcrumbs)
    /\ crumbsAdded' = crumbsAdded + 1
    /\ call' = [fn |-> "addBreadcrumb", args |-> <<>>, result |-> <<>>]
    /\ UNCHANGED <<now, catcherState, admitted, isBrowser, navigatorSendBeacon, counter, issued, reporterVars>>

\* ErrorCatcher.clearBreadcrumbs
clearBreadcrumbs ==
    /\ breadcrumbs' = <<>>
    /\ crumbsAdded' = 0
    /\ call' = [fn |-> "clearBreadcrumbs", args |-> <<>>, result |-> <<>>]
    /\ UNCHANGED <<now, catcherState, admitted, isBrowser, navigatorSendBeacon, counter, issued, reporterVars>>

\* ErrorCatcher.getBreadcrumbs: a copy of the ring
getBreadcrumbs ==
    /\ call' = [fn |-> "getBreadcrumbs", args |-> <<>>, result |-> breadcrumbs]
    /\ UNCHANGED <<now, catcherState, admitted, isBrowser, navigatorSendBeacon, breadcrumbs, crumbsAdded,
                   counter, issued, reporterVars>>

\* engines built with every cap from 0 to MaxBreadcrumbs
InitCrumbs ==
    /\ InitCatcher
    /\ catcherOptions \in {[DefaultCatcherOptions EXCEPT !.maxBreadcrumbs = cap] :
                               cap \in 0..MaxBreadcrumbs}
    /\ windowOnerror = "none"
    /\ windowOnunhandledrejection = "none"
    /\ InitReporter
    /\ reporterOptions = DefaultReporterOptions
    /\ handed = Untracked

NextCrumbs ==
    \/ Tick
    \/ addBreadcrumb
    \/ clearBreadcrumbs
    \/ getBreadcrumbs

SpecCrumbs == InitCrumbs /\ [][NextCrumbs]_vars

(***************************************************************************)
(* FingerprintCache called directly                                        *)
(***************************************************************************)
\* the fingerprints the cache is called with
CacheFingerprints == {"fp1", "fp2", "fp3", "fp4"}

\* fingerprintCache.checkAndAdd(fp), with the Date.now() and the cache.size it finds
cacheCheckAndAdd ==
    \E fp \in CacheFingerprints :
        LET r == checkAndAdd(fingerprintCache, fp, now)
        IN  /\ fingerprintCache' = r.cache
            /\ call' = [fn |-> "checkAndAdd", args |-> <<fp, now, Len(fingerprintCache)>>,
                        result |-> <<r.dup>>]
            /\ UNCHANGED <<now, catcherOptions, rateLimiterCalls, lastEmit, lastSeen,
                           evicted, last, hookVars, admitted, isBrowser,
                       navigatorSendBeacon, breadcrumbs,
                           crumbsAdded, counter, issued, reporterVars>>

\* fingerprintCache.add(fp), with the Date.now() and the cache.size it finds
cacheAdd ==
    \E fp \in CacheFingerprints :
        /\ fingerprintCache' = CacheAdd(fingerprintCache, fp, now)
        /\ call' = [fn |-> "add", args |-> <<fp, now, Len(fingerprintCache)>>,
                    result |-> <<>>]
        /\ UNCHANGED <<now, catcherOptions, rateLimiterCalls, lastEmit, lastSeen,
                       evicted, last, hookVars, admitted, isBrowser,
                       navigatorSendBeacon, breadcrumbs,
                       crumbsAdded, counter, issued, reporterVars>>

NextCache ==
    \/ Tick
    \/ cacheCheckAndAdd
    \/ cacheAdd

SpecCache == InitUtils /\ [][NextCache]_vars

(***************************************************************************)
(* catcher: captureMessage with its level argument                         *)
(***************************************************************************)
\* the levels captureMessage is called with: the default ErrorLevel.INFO, the
\* level of captured errors and the most severe one
ErrorLevels == {"fatal", "error", "info"}

\* the texts captureMessage is called with beside a level
LeveledTexts == {"ResizeObserver loop", "Script error.", "boom"}

\* the record of captureMessage with the level folded into its fingerprint
createLeveledMessageInfoByLevel(message, level) ==
    LET info == [name |-> "Message", message |-> message, level |-> level,
                 source |-> "manual", stack |-> "none"]
    IN  info @@ [fingerprint |-> generateFingerprint(info) \o <<level>>]

\* the record captureMessage(message, level) builds
createLeveledMessageInfo(message, level) ==
    LET info == [name |-> "Message", message |-> message, level |-> level,
                 source |-> "manual", stack |-> "none"]
    IN  info @@ [fingerprint |-> generateFingerprint(info)]

\* the message and level of the captureMessage call before this one
PriorLeveledCall ==
    IF call.fn = "captureMessage" THEN SubSeq(call.args, 1, 2) ELSE <<>>

\* ErrorCatcher.captureMessage(message, level)
captureMessageLevel ==
    \E message \in LeveledTexts, level \in ErrorLevels, bc \in BeforeCaptureResults :
        \E oe \in (IF bc = "pass" THEN OnErrorResults ELSE {"ok"}) :
            LET errorInfo == createLeveledMessageInfo(message, level)
            IN  /\ RunPipeline("captureMessage", errorInfo, bc, oe)
                /\ call' = [fn |-> "captureMessage",
                            args |-> <<message, level, bc, oe, PriorLeveledCall>>,
                            result |-> HandedToOnError(processError(catcherOptions,
                                [cache |-> fingerprintCache, calls |-> rateLimiterCalls],
                                errorInfo, now, bc, oe), errorInfo)]
                /\ UNCHANGED <<counter, issued>>

NextLevel ==
    \/ Tick
    \/ captureMessageLevel

SpecLevel == InitUtils /\ [][NextLevel]_vars

(***************************************************************************)
(* Properties of the capture engine                                        *)
(***************************************************************************)
CaptureOps == {"captureError", "captureMessage"}

\* this step is a capture of the watched error
WatchedCaptureStep ==
    /\ now' = now
    /\ last'.op \in CaptureOps
    /\ last'.fp = watched

\* C1 as stated: with deduplication on, whatever is captured in between, a
\* capture of an error within DedupWindow of its last onError call produces no
\* onError call, and a capture after the window has elapsed produces one
\* (unless the caller's own beforeCapture hook stops it, or the caller has
\* emptied the cache with clearFingerprintCache()).
C1_Original ==
    [][(catcherOptions.enableDeduplication /\ WatchedCaptureStep /\ lastEmit # NoTime
            /\ evicted # "cleared")
        => /\ (now - lastEmit <= DedupWindow) => last'.outcome # "emitted"
           /\ (now - lastEmit > DedupWindow)
                 => last'.outcome \in {"emitted", "vetoed", "beforeCaptureThrew"}]_vars

\* C1 as amended: a capture within DedupWindow of the error's last onError call
\* is dropped as a duplicate provided the cache did not evict or clear the
\* fingerprint in between; a capture more than DedupWindow after the error's
\* last sighting that passed the dedup stage is not a duplicate, and reaches
\* onError when the rate limiter admits it and beforeCapture returns it.
C1_Dedup ==
    [][(catcherOptions.enableDeduplication /\ WatchedCaptureStep)
        => /\ (lastEmit # NoTime /\ now - lastEmit <= DedupWindow /\ evicted = "no")
                 => last'.outcome = "duplicate"
           /\ (lastSeen = NoTime \/ now - lastSeen > DedupWindow)
                 => IF catcherOptions.enableRateLimit
                       /\ ~tryAcquire(rateLimiterCalls, now).ok
                    THEN last'.outcome = "ratelimited"
                    ELSE last'.outcome \in {"emitted", "vetoed", "beforeCaptureThrew"}]_vars

\* a second capture exactly DedupWindow after the onError call was dropped
C1_Witness ==
    /\ catcherOptions.enableDeduplication
    /\ last.op = "captureError" /\ last.fp = watched
    /\ last.outcome = "duplicate"
    /\ lastEmit # NoTime /\ now - lastEmit = DedupWindow
    /\ evicted = "no"

\* C2: captureError, captureMessage and the installed handlers return
\* normally whatever beforeCapture and onError do.
C2_NeverThrows == ~last.threw

\* C3: uninstall() after install() leaves both hooks as they were before
\* install() and no resource listener of the engine on the window.
C3_UninstallRestores ==
    (last.op = "uninstall" /\ last.outcome = "done")
        => /\ windowOnerror = priorHooks.onerror
           /\ windowOnunhandledrejection = priorHooks.onunhandledrejection
           /\ resourceListeners = 0

\* C4: a captured record with the message "Script error." is dropped by the
\* ignore filter exactly when the default ignore set is active.
C4_ScriptErrorIgnored ==
    (last.op \in CaptureOps /\ last.fp[2] = "Script error.")
        => (last.outcome = "ignored"
              <=> catcherOptions.ignorePatterns = DEFAULT_IGNORE_PATTERNS)

(***************************************************************************)
(* Properties of the delivery engine                                       *)
(***************************************************************************)
\* C5: with sampleRate = 0 the queue is empty after every report() call,
\* whatever Math.random() returns.
C5_SampleRateZero ==
    (reporterOptions.sampleRate = 0 /\ rlast.op = "report") => Len(queue) = 0

\* C6: a batch whose send fails k times (0 <= k <= maxRetries) and then
\* succeeds has had exactly k + 1 send calls, one onSuccess call and no
\* onError call.
C6_RetryThenSuccess ==
    rlast.op = "sendOk"
        => /\ rlast.fails \in 0..MaxRetries
           /\ rlast.sends = rlast.fails + 1
           /\ rlast.onSuccess = 1
           /\ rlast.onError = 0

\* the records saveToCache() of `errors` leaves in a store holding `stored`
StoredOf(errors, stored) ==
    SeqToSet(SubSeq(errors, 1,
                    Min(Len(errors), Max(0, MaxOfflineCacheSize - Cardinality(stored)))))

\* the last transaction created is this one
LastCreated(q, kind, ids, by) ==
    q # <<>> /\ q[Len(q)] = [kind |-> kind, ids |-> ids, by |-> by]

\* C7 as stated: a batch all of whose send attempts failed has had exactly
\* maxRetries + 1 send calls, then one onError call and no onSuccess call, the
\* in-progress flag is cleared, and (with a storage connection open) the batch
\* is written to durable storage.
C7_Original ==
    /\ rlast.op = "sendFailed"
          => /\ rlast.sends = MaxRetries + 1
             /\ rlast.onError = 1 /\ rlast.onSuccess = 0
             /\ ~isProcessing
             /\ db => LastCreated(txq, "save", rlast.batch, "sendFailed")
    /\ (rlast.op = "idb" /\ rlast.out = "save" /\ rlast.by = "sendFailed")
          => SeqToSet(rlast.batch) \subseteq store

\* C7 as amended: a batch all of whose send attempts failed has had exactly
\* maxRetries + 1 send calls; then, and not before, onError is called once
\* (onSuccess never), the in-progress flag is cleared and, when a storage
\* connection is open, a save of the batch is requested, which stores the
\* first maxOfflineCacheSize - (stored count) records of the batch and drops
\* the rest.
C7_AllFail ==
    [][/\ rlast'.op = "sendFailed"
             => /\ rlast'.batch = inflight /\ inflight # <<>>
                /\ rlast'.sends = MaxRetries + 1
                /\ rlast'.fails = MaxRetries + 1
                /\ rlast'.onError = 1 /\ rlast'.onSuccess = 0
                /\ ~isProcessing' /\ inflight' = <<>>
                /\ txq' = IF db THEN Append(txq, [kind |-> "save", ids |-> inflight,
                                                  by |-> "sendFailed"])
                          ELSE txq
       /\ rlast'.op = "retry"
             => /\ rlast'.sends <= MaxRetries + 1
                /\ isProcessing' /\ inflight' = inflight /\ txq' = txq
       /\ (rlast'.op = "idb" /\ rlast'.out = "save" /\ rlast'.by = "sendFailed")
             => store' = store \cup StoredOf(rlast'.batch, store)]_vars

\* every attempt for a batch failed, and its save has been requested
C7_Witness ==
    /\ rlast.op = "sendFailed"
    /\ rlast.sends = MaxRetries + 1
    /\ rlast.onError = 1
    /\ Len(rlast.batch) = BatchSize
    /\ db /\ LastCreated(txq, "save", rlast.batch, "sendFailed")

\* C8: after sendOnUnload() handled a non-empty queue, the queue is empty when
\* the beacon or the synchronous request accepted the payload, and every
\* record that was queued is in durable storage when the beacon refused it and
\* the request failed, by a non-2xx status or by an exception.
C8_PageHideDrains ==
    /\ (rlast.op = "sendOnUnload" /\ rlast.out \in {"beaconSent", "xhrOk"})
          => queue = <<>>
    /\ (rlast.op = "sendOnUnload" /\ rlast.out = "xhrStatus" /\ db)
          => SeqToSet(rlast.batch) \subseteq store
    /\ (rlast.op = "idb" /\ rlast.out = "save" /\ rlast.by = "unload")
          => SeqToSet(rlast.batch) \subseteq store

\* this step is the result of the start-up read of loadCachedErrors()
LoadStep == rlast'.op = "idb" /\ rlast'.out = "getAll"

\* C9 as stated: the batch of a failed flush is in durable storage once its
\* save has run; the start-up read of a fresh engine appends exactly the stored
\* records to its queue, requests the store cleared and arms the batch timer;
\* and a flush hands the queue's first records to send.
C9_Original ==
    [][/\ (rlast'.op = "idb" /\ rlast'.out = "save" /\ rlast'.by = "sendFailed")
             => SeqToSet(rlast'.batch) \subseteq store'
       /\ (LoadStep /\ store # {})
             => /\ queue' = queue \o SortedSeq(store)
                /\ batchTimer'
                /\ db => LastCreated(txq', "clear", <<>>, "load")
       /\ (rlast'.op = "idb" /\ rlast'.out = "clear") => store' = {}]_vars

\* C9 as amended: of the batch of a failed flush, durable storage holds the
\* records that fitted under maxOfflineCacheSize once its save has run (the
\* whole batch when stored count + batch length <= maxOfflineCacheSize); the
\* start-up read of a fresh engine appends exactly the stored records to its
\* queue, arms the batch timer and, with its connection still open, requests
\* the store cleared, which empties it; a later flush takes the first
\* min(batchSize, queue length) records of the queue into a send call.
C9_RoundTrip ==
    [][/\ (rlast'.op = "idb" /\ rlast'.out = "save" /\ rlast'.by = "sendFailed")
             => /\ store' \ store = StoredOf(rlast'.batch, store) \ store
                /\ Cardinality(store) + Len(rlast'.batch) <= MaxOfflineCacheSize
                      => SeqToSet(rlast'.batch) \subseteq store'
                /\ Cardinality(store') <= Max(MaxOfflineCacheSize, Cardinality(store))
       /\ (LoadStep /\ store # {})
             => /\ queue' = queue \o SortedSeq(store)
                /\ recovered' = recovered \cup store
                /\ batchTimer'
                /\ txq' = IF db THEN Append(Tail(txq), [kind |-> "clear", ids |-> <<>>,
                                                        by |-> "load"])
                          ELSE Tail(txq)
       /\ (LoadStep /\ store = {})
             => /\ queue' = queue /\ batchTimer' = batchTimer /\ txq' = Tail(txq)
       /\ (rlast'.op = "idb" /\ rlast'.out = "clear") => store' = {}
       /\ rlast'.out = "sending"
             => /\ inflight = <<>> /\ inflight' = rlast'.batch
                /\ LET q == IF rlast'.op = "report" THEN Append(queue, nextId)
                            ELSE queue
                   IN  /\ inflight' = SubSeq(q, 1, Min(BatchSize, Len(q)))
                       /\ queue' = SubSeq(q, Len(inflight') + 1, Len(q))]_vars

\* the records a failed flush stored were loaded by a fresh engine, which
\* cleared the store and then sent them successfully
C9_Witness ==
    /\ rlast.op = "sendOk"
    /\ Len(rlast.batch) = BatchSize
    /\ SeqToSet(rlast.batch) \subseteq (recovered \cap failedStored)
    /\ db /\ store = {}

\* this step is a report() call that puts its record in the queue
ReportStep == rlast'.op = "report" /\ rlast'.out # "sampledOut"

\* this step runs the flush() a report() call triggered
ThresholdFlushStep ==
    \/ rlast'.op = "flush" /\ rlast'.by = "threshold"
    \/ ReportStep /\ rlast'.out \notin {"timer", "waiting"}

\* C10 as stated: a report() call that makes the queue length reach batchSize
\* triggers a flush at once instead of arming the batch timer, and with no
\* flush in progress that flush makes one send call carrying those batchSize
\* records.
C10_Original ==
    [][/\ (ReportStep /\ Len(queue) + 1 = BatchSize)
             => /\ rlast'.out # "timer"
                /\ initPromise # "null" => flushWaiting' = Append(flushWaiting, "threshold")
       /\ (ThresholdFlushStep /\ ~isProcessing)
             => /\ Len(inflight') = BatchSize
                /\ sendCalls' = 1]_vars

\* C10 as amended: a report() call that makes the queue length reach batchSize
\* calls flush() at once instead of arming the batch timer; that flush first
\* waits for the initialization, and then, with no flush in progress, a
\* non-empty queue and beforeSend returning the batch, it takes the first
\* min(batchSize, queue length) records of the queue and makes one send call
\* carrying them (the queue holds those batchSize records first unless it was
\* emptied in between); a report() call below batchSize arms the timer instead.
C10_ThresholdFlush ==
    [][/\ (ReportStep /\ Len(queue) + 1 >= BatchSize)
             => /\ rlast'.out # "timer"
                /\ initPromise # "null"
                      => /\ flushWaiting' = Append(flushWaiting, "threshold")
                         /\ queue' = Append(queue, nextId)
                         /\ batchTimer' = batchTimer /\ inflight' = inflight
       /\ (ReportStep /\ Len(queue) + 1 < BatchSize)
             => /\ rlast'.out = "timer" /\ batchTimer'
                /\ queue' = Append(queue, nextId)
                /\ flushWaiting' = flushWaiting /\ inflight' = inflight
       /\ ThresholdFlushStep
             => LET q == IF rlast'.op = "report" THEN Append(queue, nextId) ELSE queue
                    n == Min(BatchSize, Len(q))
                IN  IF isProcessing \/ q = <<>>
                    THEN /\ rlast'.out = "skipped"
                         /\ queue' = q /\ inflight' = inflight /\ sendCalls' = sendCalls
                    ELSE /\ rlast'.out \in {"sending", "vetoed", "beforeSendThrew"}
                         /\ queue' = SubSeq(q, n + 1, Len(q))
                         /\ rlast'.out = "sending"
                               => /\ inflight' = SubSeq(q, 1, n)
                                  /\ sendCalls' = 1
                         /\ rlast'.out # "sending"
                               => inflight' = <<>> /\ sendCalls' = sendCalls]_vars

\* the flush a report() call triggered sent the batchSize records
C10_Witness ==
    /\ rlast.op = "flush" /\ rlast.by = "threshold"
    /\ rlast.out = "sending"
    /\ Len(inflight) = BatchSize
    /\ sendCalls = 1

\* this step runs the body of a flush(), past `await this.initPromise`
FlushRunStep ==
    /\ rlast'.op \in {"flush", "timer", "report"}
    /\ rlast'.out \in {"skipped", "sending", "vetoed", "beforeSendThrew"}

\* the queue the flush() of this step finds
QueueAtFlush == IF rlast'.op = "report" THEN Append(queue, nextId) ELSE queue

NoDuplicates(q) == \A i, j \in 1..Len(q) : q[i] = q[j] => i = j

\* C11: flush() is re-entrancy guarded.  Whatever starts it (the batch timer,
\* report() at the threshold, the application, several calls resuming after the
\* initialization), a flush() that runs while another is in progress takes
\* nothing from the queue and sends nothing; a flush() takes records or sends
\* only when none is in progress, so at most one batch is in flight at a time;
\* and the batch it sends holds no record twice, none that is left in the queue
\* and none that this engine already gave to a send batch.
C11_ReentrancyGuard ==
    [][/\ inflight' # <<>> => isProcessing'
       /\ FlushRunStep =>
             /\ isProcessing
                   => /\ rlast'.out = "skipped"
                      /\ queue' = QueueAtFlush
                      /\ inflight' = inflight /\ isProcessing'
                      /\ sendCalls' = sendCalls /\ handed' = handed
             /\ rlast'.out \in {"sending", "vetoed", "beforeSendThrew"}
                   => ~isProcessing /\ inflight = <<>>
             /\ rlast'.out = "sending"
                   => /\ isProcessing' /\ inflight' = rlast'.batch
                      /\ inflight' # <<>>
                      /\ NoDuplicates(inflight')
                      /\ SeqToSet(inflight') \cap handed = {}
                      /\ SeqToSet(inflight') \cap SeqToSet(queue') = {}
                      /\ handed' = handed \cup SeqToSet(inflight')]_vars

\* a flush() the application started while a batch was being sent found records
\* in the queue and left them there
C11_Witness ==
    /\ rlast.op = "flush" /\ rlast.by = "explicit" /\ rlast.out = "skipped"
    /\ isProcessing /\ inflight # <<>> /\ queue # <<>>
    /\ handed # {}

IsAscending(q) == \A i, j \in 1..Len(q) : i < j => q[i] < q[j]

\* C12 as stated: outside the unload path each batch is the first
\* min(batchSize, queue length) records of the queue in order, and a record
\* reported earlier (ids count the report() calls across page loads) is never
\* handed to a send attempt after one reported later.
C12_Original ==
    [][/\ (FlushRunStep /\ rlast'.out # "skipped")
             => /\ rlast'.batch =
                      SubSeq(QueueAtFlush, 1, Min(BatchSize, Len(QueueAtFlush)))
                /\ queue' = SubSeq(QueueAtFlush, Min(BatchSize, Len(QueueAtFlush)) + 1,
                                   Len(QueueAtFlush))
       /\ rlast'.out = "sending"
             => \A x \in SeqToSet(inflight') : \A y \in handed : y < x]_vars

\* C12 as amended: outside the unload path the queue is first-in first-out.
\* Records enter it at the end only, a reported record when report() is called
\* and the records of the durable store, in key order, when the start-up load
\* completes; they leave it from the front only (clearQueue() empties it): each
\* batch is the first min(batchSize, queue length) records of the queue in
\* order, and a retry resends the same batch.  So among the records reported to
\* one engine a record reported earlier is never handed to a send attempt after
\* one reported later, and the recovered records are handed in key order; a
\* recovered record is handed after the records reported before its load
\* completed, although it was reported earlier than they were.
C12_FifoOrder ==
    [][/\ (FlushRunStep /\ rlast'.out # "skipped")
             => /\ rlast'.batch =
                      SubSeq(QueueAtFlush, 1, Min(BatchSize, Len(QueueAtFlush)))
                /\ queue' = SubSeq(QueueAtFlush, Min(BatchSize, Len(QueueAtFlush)) + 1,
                                   Len(QueueAtFlush))
       /\ rlast'.out = "sending"
             => /\ inflight' = rlast'.batch
                /\ \A x \in SeqToSet(inflight') \ recovered :
                       \A y \in handed \ recovered : y < x
                /\ \A x \in SeqToSet(inflight') \cap recovered :
                       \A y \in handed \cap recovered : y < x
                /\ \A i, j \in 1..Len(inflight') :
                       (i < j /\ (inflight'[i] \in recovered <=> inflight'[j] \in recovered))
                          => inflight'[i] < inflight'[j]
       /\ rlast'.op = "retry" => inflight' = inflight /\ queue' = queue
       /\ (ReportStep /\ ~FlushRunStep) => queue' = Append(queue, nextId)
       /\ LoadStep
             => /\ Len(queue') = Len(queue) + Cardinality(store)
                /\ SubSeq(queue', 1, Len(queue)) = queue
                /\ SeqToSet(SubSeq(queue', Len(queue) + 1, Len(queue'))) = store
                /\ IsAscending(SubSeq(queue', Len(queue) + 1, Len(queue')))
       /\ (~FlushRunStep /\ ~ReportStep /\ ~LoadStep)
             => queue' = queue \/ queue' = <<>>]_vars

\* a batch is being sent that holds a record reported to this engine in front
\* of a record recovered from the store
C12_Witness ==
    /\ rlast.out = "sending"
    /\ Len(inflight) = BatchSize
    /\ inflight[1] \notin recovered
    /\ inflight[BatchSize] \in recovered
    /\ inflight[BatchSize] < inflight[1]

\* this step is a capture that reached the rate limiter of an engine using it
LimitedCaptureStep ==
    /\ now' = now
    /\ last'.op \in CaptureOps
    /\ catcherOptions.enableRateLimit
    /\ last'.outcome \notin {"ignored", "duplicate"}

\* C13 as stated: with rate limiting on and maxErrorsPerMinute = MaxCalls, the
\* captures made within one window reach onError until MaxCalls of them have,
\* the next one does not, and a capture after the window has rolled over does.
C13_Original ==
    [][LimitedCaptureStep
        => /\ Len(admitted) < MaxCalls
                 => last'.outcome \in {"emitted", "beforeCaptureThrew"}
           /\ Len(admitted) >= MaxCalls => last'.outcome = "ratelimited"]_vars

\* C13 as amended: of the captures that pass the ignore filter and the
\* deduplication, the rate limiter lets through those made while fewer than
\* MaxCalls admitted captures are younger than the window (counted since the
\* last resetRateLimiter()) and drops the others without calling onError; a
\* capture it lets through reaches onError unless beforeCapture returns a falsy
\* value or throws, and still counts against the limit when it does not.  So
\* MaxCalls + 1 such captures within one window give MaxCalls admissions and at
\* most MaxCalls onError calls, and a capture after the roll-over is admitted.
C13_RateLimit ==
    [][/\ LimitedCaptureStep
          => /\ Len(admitted) < MaxCalls
                   => /\ last'.outcome \in {"emitted", "vetoed", "beforeCaptureThrew"}
                      /\ admitted' = Append(admitted, now)
             /\ Len(admitted) >= MaxCalls
                   => /\ last'.outcome = "ratelimited" /\ ~last'.threw
                      /\ admitted' = admitted
       /\ Len(admitted') <= MaxCalls
       /\ \A i \in 1..Len(admitted') : now' - admitted'[i] < RateWindow]_vars

\* the capture after MaxCalls admitted ones in the same window was dropped
C13_Witness ==
    /\ catcherOptions.enableRateLimit
    /\ last.op \in CaptureOps /\ last.outcome = "ratelimited"
    /\ Len(admitted) = MaxCalls
    /\ \A i \in 1..Len(admitted) : admitted[i] = now

\* this step is a call of RateLimiter.tryAcquire
TryAcquireStep ==
    /\ now' = now
    /\ last'.op = "tryAcquire" \/ LimitedCaptureStep

\* the recorded calls younger than the window
YoungCalls == SelectSeq(rateLimiterCalls, LAMBDA time : now - time < RateWindow)

\* C14: RateLimiter.tryAcquire() returns true and records the call exactly when
\* fewer than MaxCalls recorded calls are younger than RateWindow, and otherwise
\* returns false and records nothing; so, called at non-decreasing times, it
\* admits at most MaxCalls calls in any window of RateWindow time units (the
\* admitted calls within RateWindow of the present are never more than
\* MaxCalls) and its recorded history never exceeds MaxCalls entries.
C14_TryAcquire ==
    [][/\ TryAcquireStep
          => /\ Len(YoungCalls) < MaxCalls
                   => /\ last'.outcome \notin {"refused", "ratelimited"}
                      /\ rateLimiterCalls' = Append(YoungCalls, now)
                      /\ admitted' = Append(admitted, now)
             /\ Len(YoungCalls) >= MaxCalls
                   => /\ last'.outcome \in {"refused", "ratelimited"}
                      /\ rateLimiterCalls' = YoungCalls
                      /\ admitted' = admitted
       /\ Len(rateLimiterCalls') <= MaxCalls
       /\ Len(admitted') <= MaxCalls
       /\ \A i \in 1..Len(admitted') : now' - admitted'[i] < RateWindow]_vars

\* a direct call was refused with MaxCalls admitted calls in the window
C14_Witness ==
    /\ last.op = "tryAcquire" /\ last.outcome = "refused"
    /\ Len(rateLimiterCalls) = MaxCalls
    /\ Len(admitted) = MaxCalls
    /\ \A i \in 1..Len(rateLimiterCalls) : now - rateLimiterCalls[i] < RateWindow

\* the two records of the last generateFingerprint pair differ at most in id,
\* timestamp and the line and column numbers of their stack frames
SameButPositions ==
    /\ call.args[1].name = call.args[2].name
    /\ call.args[1].message = call.args[2].message
    /\ call.args[1].componentName = call.args[2].componentName
    /\ call.args[1].frames = call.args[2].frames

\* C15: the fingerprint is a function of name, message, source, the first three
\* stack frames with their line:column removed and componentInfo.name: two
\* records that differ only in the line and column numbers of their stack
\* frames, or only in id and timestamp, get the same fingerprint, and so does
\* the same record whenever it is fingerprinted.
C15_FingerprintStable ==
    (call.fn = "generateFingerprint" /\ SameButPositions)
        => /\ call.result[1] = call.result[2]
           /\ call.result[1] = generateFingerprintChars(RecordOf(call.args[1]))
           /\ extractKeyFramesChars(RecordOf(call.args[1]).stack)
                 = extractKeyFramesChars(RecordOf(call.args[2]).stack)

\* two records with three key frames at different lines and columns, and with
\* different ids and timestamps, got the same fingerprint
C15_Witness ==
    /\ call.fn = "generateFingerprint" /\ SameButPositions
    /\ call.args[1].frames = MaxStackFrames
    /\ \A i \in 1..MaxStackFrames : call.args[1].pos[i] # call.args[2].pos[i]
    /\ call.args[1].id # call.args[2].id
    /\ call.args[1].timestamp # call.args[2].timestamp
    /\ call.result[1] = call.result[2]

\* C16: no two calls of the id generators return the same id, at any
\* timestamps, for any outcomes of the random component and any number of
\* calls.
C16_UniqueIds ==
    \A i, j \in 1..Len(issued) : i # j => issued[i] # issued[j]

\* C17: every record the capture engine hands to onError has a non-empty name
\* and a non-empty message, for every raw value given to captureError and
\* every text given to captureMessage.
C17_NonEmptyNameAndMessage ==
    (call.fn \in CaptureOps /\ call.result # <<>>)
        => call.result[1].name # "" /\ call.result[1].message # ""

\* the number of entries the ring must hold
RingSize == Min(crumbsAdded, catcherOptions.maxBreadcrumbs)

\* C18: after any sequence of addBreadcrumb and clearBreadcrumbs calls the ring
\* holds at most maxBreadcrumbs entries, in insertion order, and they are
\* exactly the most recently added ones (the oldest is dropped first);
\* getBreadcrumbs returns them.
C18_BreadcrumbRing ==
    /\ Len(breadcrumbs) <= catcherOptions.maxBreadcrumbs
    /\ Len(breadcrumbs) = RingSize
    /\ \A i \in 1..Len(breadcrumbs) : breadcrumbs[i].n = crumbsAdded - RingSize + i
    /\ \A i \in 1..(Len(breadcrumbs) - 1) :
           breadcrumbs[i].timestamp <= breadcrumbs[i + 1].timestamp
    /\ call.fn = "getBreadcrumbs" => call.result = breadcrumbs

\* a full ring from which addBreadcrumb dropped the oldest entries, at a later
\* time than the construction of the engine
C18_Witness ==
    /\ catcherOptions.maxBreadcrumbs = MaxBreadcrumbs
    /\ crumbsAdded > MaxBreadcrumbs + 1
    /\ Len(breadcrumbs) = MaxBreadcrumbs
    /\ breadcrumbs[1].n = crumbsAdded - MaxBreadcrumbs + 1
    /\ breadcrumbs[1].timestamp > 0
    /\ call.fn = "addBreadcrumb"

\* this step is a call of destroy()
DestroyStep == rlast'.op = "destroy"

\* C19: destroy() cancels the pending batch timer, detaches the unload
\* listeners, writes every still-queued record to durable storage (where the
\* storage is open or being opened), empties the queue and closes the storage
\* connection; a destroy() that follows a destroy() changes no state.
C19_Destroy ==
    [][DestroyStep =>
          /\ ~batchTimer'
          /\ ~boundUnloadHandler'
          /\ queue' = <<>>
          /\ ~db'
          /\ (queue # <<>> /\ (db \/ opening))
                => /\ Len(txq') = Len(txq) + 1
                   /\ txq'[Len(txq')] = [kind |-> "save", ids |-> queue, by |-> "destroy"]
          /\ rlast.op = "destroy"
                => UNCHANGED <<queue, batchTimer, boundUnloadHandler, db, initialized,
                               initPromise, txq, store, isProcessing, inflight>>]_vars

\* this step is a call of install() (one that changes nothing at all after
\* another that did nothing is a stuttering step)
InstallStep == last'.op = "install" /\ last' # last

\* C20: install() is idempotent: an install() while Installed changes neither
\* the saved prior handlers nor the global hooks nor the listener set, and
\* install() does nothing when the engine is disabled or there is no browser
\* global: the engine stays Uninstalled and the hooks stay as they were.
C20_InstallIdempotent ==
    [][/\ (InstallStep /\ (isInstalled \/ ~catcherOptions.enabled \/ ~isBrowser))
            => /\ UNCHANGED hookVars
               /\ last'.outcome = "noop"
       /\ (~catcherOptions.enabled \/ ~isBrowser)
            => /\ ~isInstalled'
               /\ windowOnerror' = windowOnerror
               /\ windowOnunhandledrejection' = windowOnunhandledrejection
               /\ resourceListeners' = resourceListeners]_vars

\* an install() on an installed engine did nothing
C20_Witness ==
    /\ last.op = "install"
    /\ last.outcome = "noop"
    /\ isInstalled
    /\ windowOnerror = "wrapper"
    /\ originalOnError = "host"

\* C21: a record leaves durable storage only in the removal that follows a
\* confirmed send of a batch holding it: the store loses records only by a
\* removeFromCache transaction, and such a transaction is created only when a
\* send was confirmed, for the records of that send; the start-up recovery
\* removes nothing.
C21_RemovedOnlyAfterDelivery ==
    [][/\ \A id \in store \ store' :
              /\ rlast'.op = "idb" /\ rlast'.out = "remove"
              /\ id \in SeqToSet(rlast'.batch)
       /\ \A k \in 1..Len(txq') :
              (txq'[k].kind = "remove" /\ (k > Len(txq) \/ txq[k] # txq'[k]) /\ rlast'.op # "idb")
                  => rlast'.op = "sendOk" /\ txq'[k].ids = rlast'.batch]_vars

\* C22: once destroy() has been called the engine makes no further send
\* attempt or retry, not even for a batch whose retries were in progress, arms
\* no batch timer again, and persists a batch it gives up on.  Stated of the
\* step that follows destroy(), which the application's own report() calls
\* aside can only belong to work that was in progress at teardown.
C22_PersistAndStop ==
    [][(rlast.op = "destroy" /\ rlast'.op # "report")
          => /\ sendCalls' <= sendCalls
             /\ ~batchTimer'
             /\ rlast'.op = "sendFailed"
                   => /\ txq' # <<>>
                      /\ txq'[Len(txq')] = [kind |-> "save", ids |-> rlast'.batch,
                                            by |-> "sendFailed"]]_vars

\* C23: durable storage never holds more than maxOfflineCacheSize records, and
\* a save transaction adds exactly the first
\* min(batch length, max(0, maxOfflineCacheSize - stored count)) records of its
\* batch, the rest of the batch being dropped.
C23_StoreBounded ==
    /\ [](Cardinality(store) <= MaxOfflineCacheSize)
    /\ [][(rlast'.op = "idb" /\ rlast'.out = "save")
             => LET errors == rlast'.batch
                    availableSlots == MaxOfflineCacheSize - Cardinality(store)
                    kept == IF availableSlots < 0 THEN 0
                            ELSE IF Len(errors) < availableSlots THEN Len(errors)
                            ELSE availableSlots
                IN  /\ store' = store \cup {errors[i] : i \in 1..kept}
                    /\ Cardinality(store' \ store) <= availableSlots]_vars

\* a save found room for the front of its batch only: the first record is
\* stored, the last one was dropped, and the store is full
C23_Witness ==
    /\ rlast.op = "idb" /\ rlast.out = "save"
    /\ Len(rlast.batch) >= 2
    /\ rlast.batch[1] \in store
    /\ rlast.batch[Len(rlast.batch)] \notin store
    /\ Cardinality(store) = MaxOfflineCacheSize

\* this step ends a flush cycle that took a batch off the queue
FlushCycleEnd ==
    \/ rlast'.op \in {"sendOk", "sendFailed"}
    \/ rlast'.out = "vetoed" /\ rlast'.op \in {"report", "flush", "timer"}

\* C24: when a flush cycle that took a batch off the queue ends, by a
\* confirmed send, by a send that failed after its retries or by a beforeSend
\* veto, a queue that is not empty has its batch timer armed, or at least a
\* flush call that is still waiting for the engine's start-up.
C24_TimerAfterFlush ==
    [][(FlushCycleEnd /\ queue' # <<>>) => (batchTimer' \/ flushWaiting' # <<>>)]_vars

\* this step is a flush() whose batch beforeSend rejected
VetoStep == rlast'.out = "vetoed" /\ rlast'.op \in {"report", "flush", "timer"}

\* C25: when beforeSend returns a falsy value or an empty list for a batch,
\* the batch (the first min(batchSize, queue length) records) is dropped: no
\* send attempt is made, neither onSuccess nor onError is called, nothing is
\* handed to durable storage, and the queue afterwards is exactly the records
\* that were behind the batch.
C25_VetoDropsBatch ==
    [][VetoStep
         => LET q == IF rlast'.op = "report" THEN Append(queue, nextId) ELSE queue
                n == IF Len(q) < BatchSize THEN Len(q) ELSE BatchSize
            IN  /\ n >= 1
                /\ rlast'.batch = SubSeq(q, 1, n)
                /\ queue' = SubSeq(q, n + 1, Len(q))
                /\ inflight' = inflight
                /\ sendCalls' = sendCalls
                /\ handed' = handed
                /\ rlast'.sends = 0
                /\ rlast'.onSuccess = 0
                /\ rlast'.onError = 0
                /\ txq' = txq
                /\ store' = store
                /\ ~isProcessing']_vars

\* beforeSend rejected a full batch while a record was queued behind it: the
\* batch is gone from the queue and from the engine, the record behind it stays
C25_Witness ==
    /\ rlast.out = "vetoed" /\ rlast.op \in {"report", "flush", "timer"}
    /\ Len(rlast.batch) = BatchSize
    /\ queue # <<>>
    /\ SeqToSet(rlast.batch) \cap SeqToSet(queue) = {}
    /\ inflight = <<>>
    /\ SeqToSet(rlast.batch) \cap handed = {}

\* C26: the batch timer is armed once and left alone.  At most one timeout is
\* pending and the handle is set exactly while it is; a timeout is created
\* only when none is pending, due batchInterval after that moment, and a
\* pending one is never replaced, only cancelled; a report() call made while
\* it is pending leaves it as it is unless the call starts a flush that takes
\* a batch, which cancels it; and when it fires the handle is already cleared
\* when flush() runs, so that it is clear even if flush() returns at once.
C26_DebounceOnce ==
    /\ [](Len(timeouts) <= 1 /\ (batchTimer <=> timeouts # <<>>))
    /\ [][/\ timeouts' # timeouts
                => \/ timeouts' = <<>>
                   \/ timeouts = <<>> /\ timeouts' = <<now + BatchInterval>>
          /\ (now' = now /\ rlast'.op = "report" /\ batchTimer)
                => \/ timeouts' = timeouts
                   \/ /\ timeouts' = <<>>
                      /\ rlast'.out \in {"sending", "vetoed", "beforeSendThrew"}
          /\ (now' = now /\ rlast'.op = "timer")
                => /\ timeouts # <<>> /\ timeouts[1] <= now
                   /\ ~batchTimer'
                   /\ timeouts' = <<>>]_vars

\* a report() call found the timer armed at an earlier tick and called
\* startBatchTimer(): the timeout is still due batchInterval after the arming,
\* which is earlier than batchInterval after this call
C26_Witness ==
    /\ rlast.op = "report" /\ rlast.out = "timer"
    /\ batchTimer
    /\ Len(timeouts) = 1
    /\ timeouts[1] < rlast.at + BatchInterval

\* C27: while the engine is installed, a global error or an unhandled
\* rejection that reaches its wrapper runs the engine's pipeline once and then
\* the handler that was on the hook before install(), exactly once; with no
\* earlier handler nothing is called after the pipeline.
C27_PriorHandlerAlwaysCalled ==
    [][/\ (isInstalled /\ windowOnerror = "wrapper" /\ last'.op = "globalError")
             => /\ last'.chained = priorHooks.onerror
                /\ last'.runs = 1
       /\ (isInstalled /\ windowOnunhandledrejection = "wrapper"
               /\ last'.op = "unhandledRejection")
             => /\ last'.chained = priorHooks.onunhandledrejection
                /\ last'.runs = 1]_vars

\* this step is a call of checkAndAdd()
CheckAndAddStep == now' = now /\ call'.fn = "checkAndAdd"

\* C28: checkAndAdd(fp) returns true, leaving the cache and so the stored
\* timestamp as they are, when fp is cached with an age of at most the TTL;
\* otherwise (fp absent, or its entry older than the TTL) it returns false and
\* the cache afterwards holds fp once, with the current time.  No entry is
\* ever stamped later than the clock.
C28_CheckAndAdd ==
    /\ [](\A i \in 1..Len(fingerprintCache) : fingerprintCache[i].ts <= now)
    /\ [][CheckAndAddStep
            => LET fp == call'.args[1]
                   suppressed ==
                       \E i \in 1..Len(fingerprintCache) :
                           /\ fingerprintCache[i].fp = fp
                           /\ now - fingerprintCache[i].ts <= DedupWindow
               IN  /\ call'.result[1] = suppressed
                   /\ suppressed => fingerprintCache' = fingerprintCache
                   /\ ~suppressed
                         => /\ Cardinality({i \in 1..Len(fingerprintCache') :
                                              fingerprintCache'[i].fp = fp}) = 1
                            /\ \E i \in 1..Len(fingerprintCache') :
                                  fingerprintCache'[i] = [fp |-> fp, ts |-> now]]_vars

\* a sighting at a later time than the first was reported as a duplicate and
\* the entry still carries the time of the first sighting
C28_Witness ==
    /\ call.fn = "checkAndAdd"
    /\ call.result = <<TRUE>>
    /\ \E i \in 1..Len(fingerprintCache) :
          /\ fingerprintCache[i].fp = call.args[1]
          /\ fingerprintCache[i].ts < call.args[2]

\* this step is a call of add() or of checkAndAdd() that inserts
InsertStep ==
    /\ now' = now
    /\ \/ call'.fn = "add"
       \/ call'.fn = "checkAndAdd" /\ call'.result = <<FALSE>>

\* the entries of a cache
Entries(cache) == {cache[i] : i \in 1..Len(cache)}

\* C29: the cache never holds more than maxSize entries nor a fingerprint
\* twice.  An insertion of fp (after has() deleted fp's own expired entry, in
\* checkAndAdd) that finds fewer than maxSize entries removes nothing.  One
\* that finds maxSize entries removes every entry older than the TTL and, when
\* maxSize entries are still left, evicts ceil(maxSize/2) of them, each at
\* most as new as every entry it keeps; an earlier entry of fp itself is
\* replaced by the insertion either way and counts as one of the evicted when
\* it is at most as new as all that are kept.
C29_BoundedCache ==
    /\ [](/\ Len(fingerprintCache) <= CacheMaxSize
          /\ Cardinality(CacheKeys(fingerprintCache)) = Len(fingerprintCache))
    /\ [][InsertStep
            => LET fp == call'.args[1]
                   expired(e) == now - e.ts > DedupWindow
                   found == {e \in Entries(fingerprintCache) :
                                ~(call'.fn = "checkAndAdd" /\ e.fp = fp)}
                   others == {e \in found : e.fp # fp}
                   own == {e \in found : e.fp = fp /\ ~expired(e)}
                   kept == others \cap Entries(fingerprintCache')
                   gone == others \ kept
                   evictedNow == {e \in gone : ~expired(e)}
                   live == {e \in found : ~expired(e)}
               IN  /\ Entries(fingerprintCache') = kept \cup {[fp |-> fp, ts |-> now]}
                   /\ Cardinality(found) < CacheMaxSize => gone = {}
                   /\ Cardinality(found) >= CacheMaxSize
                         => /\ \A e \in others : expired(e) => e \in gone
                            /\ Cardinality(live) < CacheMaxSize => evictedNow = {}
                            /\ Cardinality(live) >= CacheMaxSize
                                  => /\ \A e \in evictedNow, k \in kept : e.ts <= k.ts
                                     /\ \/ Cardinality(evictedNow) = (CacheMaxSize + 1) \div 2
                                        \/ /\ own # {}
                                           /\ Cardinality(evictedNow)
                                                 = ((CacheMaxSize + 1) \div 2) - 1
                                           /\ \A e \in own, k \in kept : e.ts <= k.ts]_vars

\* an insertion found the cache full at a time when no entry can be older
\* than the TTL, and left maxSize - ceil(maxSize/2) earlier entries and its own
C29_Witness ==
    /\ call.fn \in {"add", "checkAndAdd"}
    /\ call.args[2] <= DedupWindow
    /\ call.args[3] = CacheMaxSize
    /\ Len(fingerprintCache) = CacheMaxSize - ((CacheMaxSize + 1) \div 2) + 1
    /\ \E i \in 1..Len(fingerprintCache) :
          fingerprintCache[i] = [fp |-> call.args[1], ts |-> call.args[2]]

\* this step is a sendOnUnload() that got past beforeSend
UnloadSendStep ==
    /\ rlast'.op = "sendOnUnload"
    /\ rlast'.out \notin {"empty", "vetoed", "beforeSendThrew"}

\* the place of a transport in the order of sendOnUnload()
TransportRank(t) ==
    CASE t = "beacon" -> 1 [] t = "xhr" -> 2 [] t = "storage" -> 3

\* C30: the page-hide drain takes the whole queue as one payload, whatever
\* batchSize is, and uses its transports in the order beacon, synchronous
\* request, durable storage, each at most once: the beacon exactly when
\* useBeacon is set and the platform has it, the request exactly when the
\* beacon was not available or refused the payload, durable storage only when
\* the request was made and failed, and nothing after a transport that
\* accepted the payload, which empties the queue.
C30_UnloadPriority ==
    [][UnloadSendStep
         => LET used == rlast'.used
                Used(t) == \E i \in 1..Len(used) : used[i] = t
            IN  /\ queue # <<>> /\ rlast'.batch = queue
                /\ \A i, j \in 1..Len(used) :
                      i < j => TransportRank(used[i]) < TransportRank(used[j])
                /\ Used("beacon")
                      <=> (reporterOptions.useBeacon /\ isBrowser /\ navigatorSendBeacon)
                /\ Used("xhr") <=> rlast'.out # "beaconSent"
                /\ rlast'.out = "beaconSent" => used = <<"beacon">>
                /\ Used("storage") => (Used("xhr") /\ rlast'.out = "xhrThrew")
                /\ rlast'.out = "xhrOk" => ~Used("storage")
                /\ ~Used("storage") => txq' = txq
                /\ (Used("storage") /\ db)
                      => txq' = Append(txq, [kind |-> "save", ids |-> queue,
                                             by |-> "unload"])
                /\ queue' = IF rlast'.out \in {"beaconSent", "xhrOk"}
                            THEN <<>> ELSE queue]_vars

\* a queue longer than batchSize went out as one payload: the beacon refused
\* it, the synchronous request threw, and the whole of it was handed to
\* durable storage
C30_Witness ==
    /\ rlast.op = "sendOnUnload"
    /\ rlast.out = "xhrThrew"
    /\ rlast.used = <<"beacon", "xhr", "storage">>
    /\ Len(rlast.batch) > BatchSize
    /\ txq # <<>>
    /\ txq[Len(txq)] = [kind |-> "save", ids |-> rlast.batch, by |-> "unload"]

\* a step of captureMessage(message, level)
LeveledStep == now' = now /\ call'.fn = "captureMessage"

\* the run of the pipeline from the state before the step, on the record the
\* same call builds with another level
RunAtLevel(level) ==
    processError(catcherOptions,
                 [cache |-> fingerprintCache, calls |-> rateLimiterCalls],
                 createLeveledMessageInfo(call'.args[1], level), now,
                 call'.args[3], call'.args[4])

\* C31: the same captureMessage call made with any other level from the same
\* state of the engine is admitted or dropped at the same stage and leaves the
\* same fingerprint cache and rate limiter, so two runs of one capture sequence
\* that differ in the levels only stay in step; the level reaches onError
\* unchanged
C31_LevelNeverSuppresses ==
    [][LeveledStep =>
          /\ \A level \in ErrorLevels :
                 /\ RunAtLevel(level).outcome = last'.outcome
                 /\ RunAtLevel(level).cache = fingerprintCache'
                 /\ RunAtLevel(level).calls = rateLimiterCalls'
          /\ \A k \in 1..Len(call'.result) : call'.result[k].level = call'.args[2]]_vars

\* C31: a message captured at one level is dropped as a duplicate of the same
\* message captured at another level
C31_Witness ==
    /\ call.fn = "captureMessage"
    /\ call.args[2] = "fatal"
    /\ call.args[5] = <<call.args[1], "info">>
    /\ last.outcome = "duplicate"

\* the rate-limit slots taken at the current time
SlotsNow(calls) == Cardinality({i \in 1..Len(calls) : calls[i] = now})

\* C32: a capture dropped by the ignore filter leaves the fingerprint cache and
\* the rate limiter as they were; a capture dropped as a duplicate takes no
\* rate-limit slot; a capture that reached the rate limiter has its fingerprint
\* registered, one that reached beforeCapture has also taken a slot, and a
\* capture dropped at any stage runs neither a later callback nor onError
C32_StageOrder ==
    [][LeveledStep =>
          LET outcome == last'.outcome
              registered == last'.fp \in CacheKeys(fingerprintCache')
              slotTaken == SlotsNow(rateLimiterCalls') = SlotsNow(rateLimiterCalls) + 1
          IN  /\ outcome = "ignored" =>
                     /\ fingerprintCache' = fingerprintCache
                     /\ rateLimiterCalls' = rateLimiterCalls
              /\ outcome = "duplicate" =>
                     /\ rateLimiterCalls' = rateLimiterCalls
                     /\ fingerprintCache' = fingerprintCache
              /\ outcome = "ratelimited" => registered /\ ~slotTaken
              /\ outcome \in {"vetoed", "beforeCaptureThrew", "emitted"} =>
                     registered /\ slotTaken
              /\ outcome \in {"ignored", "duplicate", "ratelimited"} =>
                     ~last'.threw /\ admitted' = admitted
              /\ (outcome = "emitted") = (call'.result # <<>>)
              /\ outcome = "emitted" => call'.args[3] = "pass"]_vars

\* C32: a duplicate dropped while the rate limiter still had its slot free and
\* a beforeCapture that would have thrown
C32_Witness ==
    /\ call.fn = "captureMessage"
    /\ last.outcome = "duplicate"
    /\ call.args[3] = "throw"
    /\ rateLimiterCalls # <<>>
    /\ \A i \in 1..Len(rateLimiterCalls) : now - rateLimiterCalls[i] >= RateWindow

\* a capture dropped as a duplicate of the watched fingerprint
DuplicateOfWatched ==
    /\ now' = now
    /\ last' # last
    /\ last'.outcome = "duplicate"
    /\ last'.fp = watched

\* C33 as stated: whenever a capture is dropped as a duplicate, a record with
\* its fingerprint reached onError within the preceding deduplication window
C33_Original ==
    [][DuplicateOfWatched =>
          lastEmit # NoTime /\ now - lastEmit <= DedupWindow]_vars

\* a capture of the watched fingerprint made now would be dropped as a duplicate
WouldBeDuplicate ==
    catcherOptions.enableDeduplication /\ CacheHas(fingerprintCache, watched, now)

\* a capture of the watched fingerprint passed the ignore filter and the
\* deduplication stage within the last deduplication window
RegisteredInWindow == lastSeen # NoTime /\ now - lastSeen <= DedupWindow

\* C33: whenever a capture is dropped as a duplicate, a capture with its
\* fingerprint passed the ignore filter and the deduplication stage within the
\* preceding deduplication window, whether or not that capture went on to
\* reach onError
C33_DuplicateOfRegistered ==
    /\ [](WouldBeDuplicate => RegisteredInWindow)
    /\ [][DuplicateOfWatched => RegisteredInWindow]_vars

\* C33: a capture dropped as a duplicate of a sighting that never reached
\* onError
C33_Witness ==
    /\ last.outcome = "duplicate"
    /\ last.fp = watched
    /\ lastSeen = now
    /\ lastEmit = NoTime

\* C34: once destroy() has returned (initPromise is null from then on), the
\* engine holds no open storage connection, has no unload listeners attached
\* and isReady() is false, also when destroy() was called while the storage
\* was still being opened
C34_DestroyIsFinal ==
    initPromise = "null" => ~db /\ ~boundUnloadHandler /\ ~initialized

\* C35: a batch that passed beforeSend ends with exactly one of onSuccess and
\* onError called; a batch whose send succeeded is not passed to onError and
\* no write of it to durable storage is requested, whatever onSuccess does
C35_OneCallbackPerBatch ==
    /\ rlast.op \in {"sendOk", "sendFailed"} => rlast.onSuccess + rlast.onError = 1
    /\ rlast.op = "sendOk" => rlast.onError = 0
    /\ \A i \in 1..Len(txq) :
           txq[i].kind = "save" => txq[i].by # "onSuccessThrew"

\* C36: once the storage transactions requested so far have completed, no
\* record is at once in the in-memory queue and in durable storage, nor at once
\* in the queue and in the in-flight batch
C36_OnePlacePerRecord ==
    /\ txq = <<>> => SeqToSet(queue) \cap store = {}
    /\ SeqToSet(queue) \cap SeqToSet(inflight) = {}

\* the clear requested by the start-up recovery runs in this step
RecoveryClearStep ==
    /\ txq # <<>>
    /\ Head(txq).kind = "clear"
    /\ txq' = Tail(txq)

\* C37: the clear of the start-up recovery deletes from durable storage only
\* the records the recovery loaded into the queue: the batch that a failed
\* flush persisted between the recovery's read and its clear is still stored
\* after the clear
C37_RecoveryDeletesOnlyLoaded ==
    [][RecoveryClearStep =>
          ((store \ recovered) \cap failedStored) \subseteq store']_vars

\* the platform reports a global error or an unhandled rejection in this step
FaultStep == last'.op \in {"globalError", "unhandledRejection"}

\* C38: a fault reported while the engine is not installed runs no pipeline of
\* the engine (no run, fingerprint cache and rate limiter untouched, so no
\* onError call), and a fault reported while it is installed runs the pipeline
\* exactly once, whatever install()/uninstall() cycles came before
C38_FaultsReachInstalledEngineOnce ==
    [][FaultStep =>
          IF isInstalled
          THEN last'.runs = 1
          ELSE /\ last'.runs = 0
               /\ UNCHANGED <<fingerprintCache, rateLimiterCalls>>]_vars

\* C39: the in-progress flag does not stay set: whenever a flush() has set
\* isProcessing, it is false again later, the send attempts completing or
\* timing out and whatever beforeSend, onSuccess and onError do
C39_FlushSettles == isProcessing ~> ~isProcessing

=============================================================================
